---- MODULE Spec2Model ----
(***************************************************************************)
(* PaperWeave: incremental arXiv harvesting (oai_pmh_client.py,            *)
(* arxiv_updater.py), DOI -> OpenAlex identifier matching                  *)
(* (openalex_loader.py) and citation construction (citation_loader.py)     *)
(* over one Neo4j graph store.                                             *)
(*                                                                         *)
(* Python str values are sequences of one-character strings, Python dicts  *)
(* are functions whose DOMAIN is the set of keys that are present, Python  *)
(* None is NoneStr (for str-typed slots) or NoneTime (for datetime slots). *)
(***************************************************************************)
EXTENDS Integers, Sequences, FiniteSets, Bags, TLC

(***************************************************************************)
(* Bounds of the model.                                                    *)
(***************************************************************************)
MaxBatch == 2

MaxClock == 2

MaxFile == 2

MaxRuns == 3

MaxRequests == 2

MaxPage == 2

MaxHarvests == 1

MaxHarvestRequests == 9

MaxRetries == 2

NumNodeIds == 3

(***************************************************************************)
(* Python values.                                                          *)
(***************************************************************************)
NoneStr == <<"None">>

NoneTime == -1

Truthy(s) == s # NoneStr /\ s # <<>>

Get(d, k, default) == IF k \in DOMAIN d THEN d[k] ELSE default

Min(a, b) == IF a <= b THEN a ELSE b

RECURSIVE SeqToSet(_)
SeqToSet(s) == IF s = <<>> THEN {} ELSE {Head(s)} \cup SeqToSet(Tail(s))

RECURSIVE SelectSeqBy(_, _)
SelectSeqBy(s, keep) ==
    IF s = <<>> THEN <<>>
    ELSE IF Head(s) \in keep THEN <<Head(s)>> \o SelectSeqBy(Tail(s), keep)
         ELSE SelectSeqBy(Tail(s), keep)

RECURSIVE Concat(_)
Concat(ss) == IF ss = <<>> THEN <<>> ELSE Head(ss) \o Concat(Tail(ss))

(***************************************************************************)
(* str methods used by the code: strip(), split(), split(sep), join().     *)
(***************************************************************************)
IsSpace(c) == c = " "

RECURSIVE LStrip(_)
LStrip(s) ==
    IF s = <<>> THEN s
    ELSE IF IsSpace(Head(s)) THEN LStrip(Tail(s)) ELSE s

RECURSIVE RStrip(_)
RStrip(s) ==
    IF s = <<>> THEN s
    ELSE IF IsSpace(s[Len(s)]) THEN RStrip(SubSeq(s, 1, Len(s) - 1)) ELSE s

StrStrip(s) == RStrip(LStrip(s))

\* s.split(): runs of whitespace separate the tokens, no empty token.
RECURSIVE SplitWsAcc(_, _, _)
SplitWsAcc(s, cur, acc) ==
    IF s = <<>> THEN (IF cur = <<>> THEN acc ELSE Append(acc, cur))
    ELSE IF IsSpace(Head(s))
         THEN SplitWsAcc(Tail(s), <<>>, IF cur = <<>> THEN acc ELSE Append(acc, cur))
         ELSE SplitWsAcc(Tail(s), Append(cur, Head(s)), acc)

SplitWs(s) == SplitWsAcc(s, <<>>, <<>>)

\* s.split(sep) for a one-character sep: every occurrence separates, empty
\* pieces are kept.
RECURSIVE SplitOnAcc(_, _, _, _)
SplitOnAcc(s, sep, cur, acc) ==
    IF s = <<>> THEN Append(acc, cur)
    ELSE IF Head(s) = sep
         THEN SplitOnAcc(Tail(s), sep, <<>>, Append(acc, cur))
         ELSE SplitOnAcc(Tail(s), sep, Append(cur, Head(s)), acc)

SplitOn(s, sep) == SplitOnAcc(s, sep, <<>>, <<>>)

\* sep.join(parts)
RECURSIVE JoinWith(_, _)
JoinWith(sep, parts) ==
    IF parts = <<>> THEN <<>>
    ELSE IF Len(parts) = 1 THEN Head(parts)
         ELSE Head(parts) \o sep \o JoinWith(sep, Tail(parts))

(***************************************************************************)
(* oai_pmh_client.py: a <record> element of a ListRecords response is a     *)
(* function with the optional keys "header" and "metadata"; the header has *)
(* the optional attribute "status" and the children identifier, datestamp  *)
(* and setSpec (a sequence of texts); the metadata has the optional child  *)
(* "dc", the sequence of <<tag, text>> children of oai_dc:dc.  A parsed    *)
(* record is a dict; its key "lists_" is not a key of the Python dict: it  *)
(* holds the tags whose value is a Python list (isinstance(v, list)).      *)
(***************************************************************************)
NoneRec == [none_ |-> TRUE]

IsNone(r) == "none_" \in DOMAIN r

RECURSIVE ParseDcChildren(_, _)
ParseDcChildren(record, children) ==
    IF children = <<>> THEN record
    ELSE LET tag == Head(children)[1]
             text == Head(children)[2]
             next == IF tag \in DOMAIN record
                     THEN IF tag \in record.lists_
                          THEN [record EXCEPT ![tag] = Append(@, text)]
                          ELSE [record EXCEPT ![tag] = <<@, text>>,
                                              !.lists_ = @ \cup {tag}]
                     ELSE (tag :> text) @@ record
         IN ParseDcChildren(next, Tail(children))

\* OAIPMHClient._parse_dublin_core
ParseDublinCore(header_elem, dc_elem) ==
    LET identifier == header_elem.identifier
        base == [identifier |-> identifier,
                 datestamp |-> header_elem.datestamp,
                 status |-> "active",
                 lists_ |-> {}]
        withId == IF ":" \in SeqToSet(identifier)
                  THEN LET parts == SplitOn(identifier, ":")
                       IN ("arxiv_id" :> parts[Len(parts)]) @@ base
                  ELSE base
        parsed == ParseDcChildren(withId, dc_elem)
    IN [k \in DOMAIN parsed \cup {"sets"} |->
            IF k = "sets" THEN header_elem.setSpec ELSE parsed[k]]

\* OAIPMHClient._parse_record; an element whose header lacks identifier or
\* datestamp raises AttributeError on .text, which the except turns to None.
ParseRecord(record_elem) ==
    IF "header" \notin DOMAIN record_elem THEN NoneRec
    ELSE LET header_elem == record_elem.header IN
         IF {"identifier", "datestamp"} \ DOMAIN header_elem # {} THEN NoneRec
         ELSE IF Get(header_elem, "status", "") = "deleted"
         THEN [identifier |-> header_elem.identifier,
               datestamp |-> header_elem.datestamp,
               status |-> "deleted"]
         ELSE IF "metadata" \notin DOMAIN record_elem THEN NoneRec
         ELSE IF "dc" \in DOMAIN record_elem.metadata
              THEN ParseDublinCore(header_elem, record_elem.metadata.dc)
              ELSE NoneRec

\* list_records, lines 157-162: the records of a page that parse.
RECURSIVE ParseRecords(_)
ParseRecords(elems) ==
    IF elems = <<>> THEN <<>>
    ELSE LET record == ParseRecord(Head(elems))
         IN (IF IsNone(record) THEN <<>> ELSE <<record>>) \o ParseRecords(Tail(elems))

(***************************************************************************)
(* arxiv_updater.py: convert_oai_record_to_paper_data.                     *)
(***************************************************************************)
\* a parse that takes the first token as the surname
ParseCreatorFirstToken(creator, single) ==
    LET name_parts == SplitWs(StrStrip(creator)) IN
    IF Len(name_parts) >= 2
    THEN << <<name_parts[1],
              JoinWith(<<" ">>, SubSeq(name_parts, 2, Len(name_parts))),
              <<>> >> >>
    ELSE IF Len(name_parts) = 1 /\ ~single THEN << <<name_parts[1], <<>>, <<>> >> >>
    ELSE IF single THEN << <<creator, <<>>, <<>> >> >>
    ELSE <<>>

\* lines 98-104 and 108-114: one creator string to an authors_parsed entry;
\* single is TRUE in the str branch, where a creator without any token is
\* kept as [creators, '', ''].
ParseCreator(creator, single) ==
    LET name_parts == SplitWs(StrStrip(creator)) IN
    IF Len(name_parts) >= 2
    THEN << <<name_parts[Len(name_parts)],
              JoinWith(<<" ">>, SubSeq(name_parts, 1, Len(name_parts) - 1)),
              <<>> >> >>
    ELSE IF Len(name_parts) = 1 /\ ~single THEN << <<name_parts[1], <<>>, <<>> >> >>
    ELSE IF single THEN << <<creator, <<>>, <<>> >> >>
    ELSE <<>>

RECURSIVE ParseCreators(_)
ParseCreators(creators) ==
    IF creators = <<>> THEN <<>>
    ELSE ParseCreator(Head(creators), FALSE) \o ParseCreators(Tail(creators))

ConvertOaiRecordToPaperData(oai_record) ==
    IF Get(oai_record, "status", "") = "deleted"
    THEN [id |-> Get(oai_record, "arxiv_id", NoneStr), status |-> "deleted"]
    ELSE
    LET sets == Get(oai_record, "sets", <<>>)
        hasCreator == "creator" \in DOMAIN oai_record
        creators == Get(oai_record, "creator", <<>>)
        isList == ~hasCreator \/ "creator" \in Get(oai_record, "lists_", {})
        \* ' '.join(sets) and creator.strip() raise on a None text
        raises == \/ NoneStr \in SeqToSet(sets)
                  \/ isList /\ NoneStr \in SeqToSet(creators)
    IN IF raises THEN NoneRec
       ELSE [id |-> Get(oai_record, "arxiv_id", NoneStr),
             title |-> Get(oai_record, "title", <<>>),
             abstract |-> Get(oai_record, "description", <<>>),
             categories |-> JoinWith(<<" ">>, sets),
             update_date |-> Get(oai_record, "datestamp", <<>>),
             submitter |-> creators,
             authors |-> IF isList THEN JoinWith(<<",", " ">>, creators) ELSE creators,
             doi |-> NoneStr,
             license |-> NoneStr,
             authors_parsed |->
                 IF isList THEN ParseCreators(creators)
                 ELSE IF Truthy(creators) THEN ParseCreator(creators, TRUE)
                 ELSE <<>>]
            @@ ("journal-ref" :> NoneStr) @@ ("report-no" :> NoneStr)

\* run_incremental_update, lines 318-322: the records that convert.
RECURSIVE ConvertBatch(_)
ConvertBatch(batch) ==
    IF batch = <<>> THEN <<>>
    ELSE LET paper_data == ConvertOaiRecordToPaperData(Head(batch))
         IN (IF IsNone(paper_data) THEN <<>> ELSE <<paper_data>>)
            \o ConvertBatch(Tail(batch))

(***************************************************************************)
(* The graph store.  A graph is a record: papers maps the internal node    *)
(* ids of the Paper nodes to their properties (an absent property is       *)
(* None); authors is the bag of Author names and categories the bag of     *)
(* Category ids (every writer sets a Category's name to its id); wrote,    *)
(* hasCategory and cites are the bags of <<author name, paper node>>,      *)
(* <<paper node, category id>> and <<citing node, cited node>> edges.      *)
(* Every session.run is an auto-commit transaction: a statement takes      *)
(* effect as a whole or raises without effect.                             *)
(***************************************************************************)
NodeIds == 1..NumNodeIds

EmptyGraph ==
    [papers |-> <<>>, authors |-> EmptyBag, categories |-> EmptyBag,
     wrote |-> EmptyBag, hasCategory |-> EmptyBag, cites |-> EmptyBag]

Restrict(f, S) == [x \in DOMAIN f \cap S |-> f[x]]

\* a CREATE where the code has a MERGE
MergeInBagCreate(bag, e) == bag (+) SetToBag({e})

MergeInBag(bag, e) == IF BagIn(e, bag) THEN bag ELSE bag (+) SetToBag({e})

RECURSIVE MergeAllInBag(_, _)
MergeAllInBag(bag, es) ==
    IF es = <<>> THEN bag ELSE MergeAllInBag(MergeInBag(bag, Head(es)), Tail(es))

\* MATCH (p:Paper {arxiv_id: k}); a null key matches nothing
PapersByArxivId(g, k) ==
    IF k = NoneStr THEN {} ELSE {n \in DOMAIN g.papers : g.papers[n].arxiv_id = k}

\* MATCH (p:Paper {doi: k}) and MATCH (p:Paper {openalex_id: k})
PapersByDoi(g, k) ==
    IF k = NoneStr THEN {} ELSE {n \in DOMAIN g.papers : g.papers[n].doi = k}

PapersByOpenAlexId(g, k) ==
    IF k = NoneStr THEN {} ELSE {n \in DOMAIN g.papers : g.papers[n].openalex_id = k}

FreshNode(papers) ==
    CHOOSE n \in NodeIds \ DOMAIN papers : \A m \in NodeIds \ DOMAIN papers : n <= m

NewPaper(arxiv_id) ==
    [arxiv_id |-> arxiv_id, title |-> NoneStr, abstract |-> NoneStr,
     submitter |-> NoneStr, journal_ref |-> NoneStr, doi |-> NoneStr,
     report_no |-> NoneStr, license |-> NoneStr, update_date |-> NoneTime,
     last_modified |-> NoneTime, openalex_id |-> NoneStr]

\* a SET that writes the whole property map of the row, identifier included
SetPaperFieldsWholeMap(p, paper, now) ==
    [p EXCEPT !.title = paper.title,
              !.abstract = paper.abstract,
              !.submitter = paper.submitter,
              !.journal_ref = paper.journal_ref,
              !.doi = paper.doi,
              !.report_no = paper.report_no,
              !.license = paper.license,
              !.update_date = paper.update_date,
              !.last_modified = now,
              !.openalex_id = NoneStr]

\* lines 243-251: SET p.title = paper.title, ..., p.last_modified = datetime()
SetPaperFields(p, paper, now) ==
    [p EXCEPT !.title = paper.title,
              !.abstract = paper.abstract,
              !.submitter = paper.submitter,
              !.journal_ref = paper.journal_ref,
              !.doi = paper.doi,
              !.report_no = paper.report_no,
              !.license = paper.license,
              !.update_date = paper.update_date,
              !.last_modified = now]

\* line 242: MERGE (p:Paper {arxiv_id: paper.arxiv_id}), then the SET, for one
\* row of the UNWIND
MergePaper(papers, paper, now) ==
    LET matched == {n \in DOMAIN papers : papers[n].arxiv_id = paper.arxiv_id}
        merged == IF matched = {}
                  THEN (FreshNode(papers) :> NewPaper(paper.arxiv_id)) @@ papers
                  ELSE papers
        nodes == IF matched = {} THEN {FreshNode(papers)} ELSE matched
    IN [n \in DOMAIN merged |->
            IF n \in nodes THEN SetPaperFields(merged[n], paper, now) ELSE merged[n]]

RECURSIVE MergePapers(_, _, _)
MergePapers(papers, papers_data, now) ==
    IF papers_data = <<>> THEN papers
    ELSE MergePapers(MergePaper(papers, Head(papers_data), now), Tail(papers_data), now)

\* a reconciliation that takes the papers' CITES edges with their WROTE edges
DeleteWroteAndCitesOf(g, paper_ids) ==
    LET nodes == UNION {PapersByArxivId(g, k) : k \in paper_ids}
    IN [g EXCEPT !.wrote = Restrict(@, {e \in DOMAIN @ : e[2] \notin nodes}),
                 !.cites = Restrict(@, {e \in DOMAIN @ :
                                           e[1] \notin nodes /\ e[2] \notin nodes})]

\* lines 275-276 over the UNWIND: DELETE every WROTE edge into the papers
DeleteWroteOf(g, paper_ids) ==
    LET nodes == UNION {PapersByArxivId(g, k) : k \in paper_ids}
    IN [g EXCEPT !.wrote = Restrict(@, {e \in DOMAIN @ : e[2] \notin nodes})]

\* a blanket delete of the HAS_CATEGORY edges
DeleteEveryHasCategory(g, paper_ids) == [g EXCEPT !.hasCategory = EmptyBag]

\* lines 292-293
DeleteHasCategoryOf(g, paper_ids) ==
    LET nodes == UNION {PapersByArxivId(g, k) : k \in paper_ids}
    IN [g EXCEPT !.hasCategory = Restrict(@, {e \in DOMAIN @ : e[1] \notin nodes})]

\* a WROTE statement that creates an edge for every row, there or not
RECURSIVE CreateWroteAlways(_, _)
CreateWroteAlways(g, relationships) ==
    IF relationships = <<>> THEN g
    ELSE LET rel == Head(relationships)
             ends == IF BagIn(rel.author_name, g.authors)
                     THEN {<<rel.author_name, n>> : n \in PapersByArxivId(g, rel.paper_id)}
                     ELSE {}
         IN CreateWroteAlways([g EXCEPT !.wrote = @ (+) SetToBag(ends)],
                              Tail(relationships))

\* lines 281-284: MATCH the author, MATCH the paper, MERGE the edge
RECURSIVE CreateWrote(_, _)
CreateWrote(g, relationships) ==
    IF relationships = <<>> THEN g
    ELSE LET rel == Head(relationships)
             ends == IF BagIn(rel.author_name, g.authors)
                     THEN {<<rel.author_name, n>> : n \in PapersByArxivId(g, rel.paper_id)}
                     ELSE {}
             edges == [e \in DOMAIN g.wrote \cup ends |->
                          IF e \in DOMAIN g.wrote THEN g.wrote[e] ELSE 1]
         IN CreateWrote([g EXCEPT !.wrote = edges], Tail(relationships))

\* lines 298-301
RECURSIVE CreateHasCategory(_, _)
CreateHasCategory(g, relationships) ==
    IF relationships = <<>> THEN g
    ELSE LET rel == Head(relationships)
             ends == IF BagIn(rel.category_id, g.categories)
                     THEN {<<n, rel.category_id>> : n \in PapersByArxivId(g, rel.paper_id)}
                     ELSE {}
             edges == [e \in DOMAIN g.hasCategory \cup ends |->
                          IF e \in DOMAIN g.hasCategory THEN g.hasCategory[e] ELSE 1]
         IN CreateHasCategory([g EXCEPT !.hasCategory = edges], Tail(relationships))

\* a delete that takes the Paper and leaves its CITES edges behind
DetachDeleteLeavingCites(g, arxiv_id) ==
    LET nodes == PapersByArxivId(g, arxiv_id)
    IN [g EXCEPT !.papers = Restrict(@, DOMAIN @ \ nodes),
                 !.wrote = Restrict(@, {e \in DOMAIN @ : e[2] \notin nodes}),
                 !.hasCategory = Restrict(@, {e \in DOMAIN @ : e[1] \notin nodes})]

\* lines 127-130: MATCH (p:Paper {arxiv_id}) DETACH DELETE p RETURN count(p)
DetachDelete(g, arxiv_id) ==
    LET nodes == PapersByArxivId(g, arxiv_id)
    IN [g EXCEPT !.papers = Restrict(@, DOMAIN @ \ nodes),
                 !.wrote = Restrict(@, {e \in DOMAIN @ : e[2] \notin nodes}),
                 !.hasCategory = Restrict(@, {e \in DOMAIN @ : e[1] \notin nodes}),
                 !.cites = Restrict(@, {e \in DOMAIN @ :
                                           e[1] \notin nodes /\ e[2] \notin nodes})]

(***************************************************************************)
(* arxiv_updater.py: the batch upsert.                                     *)
(***************************************************************************)
\* The datestamps the parsers of lines 187-190 accept, with the instant each
\* denotes; every other text leaves update_date None.
ValidDates == (<<"1">> :> 1) @@ (<<"2">> :> 2)

\* lines 184-192
ParseUpdateDate(paper) ==
    LET text == Get(paper, "update_date", NoneStr)
    IN IF Truthy(text) /\ text \in DOMAIN ValidDates THEN ValidDates[text] ELSE NoneTime

\* lines 195-205
PaperRow(paper) ==
    [arxiv_id |-> paper.id,
     title |-> Get(paper, "title", <<>>),
     abstract |-> Get(paper, "abstract", <<>>),
     submitter |-> Get(paper, "submitter", <<>>),
     journal_ref |-> Get(paper, "journal-ref", NoneStr),
     doi |-> Get(paper, "doi", NoneStr),
     report_no |-> Get(paper, "report-no", NoneStr),
     license |-> Get(paper, "license", NoneStr),
     update_date |-> ParseUpdateDate(paper)]

\* lines 210-216
FullName(author_data) ==
    LET last_name == IF Len(author_data) > 0 THEN author_data[1] ELSE <<>>
        first_name == IF Len(author_data) > 1 THEN author_data[2] ELSE <<>>
        suffix == IF Len(author_data) > 2 THEN author_data[3] ELSE <<>>
        full_name == StrStrip(first_name \o <<" ">> \o last_name)
    IN IF Truthy(suffix) THEN full_name \o <<" ">> \o suffix ELSE full_name

\* lines 208-223: the names of one paper's authors, in order, empty ones skipped
RECURSIVE AuthorNames(_)
AuthorNames(authors_parsed) ==
    IF authors_parsed = <<>> THEN <<>>
    ELSE LET full_name == FullName(Head(authors_parsed))
         IN (IF Truthy(full_name) THEN <<full_name>> ELSE <<>>)
            \o AuthorNames(Tail(authors_parsed))

\* lines 226-228
RECURSIVE NonBlank(_)
NonBlank(parts) ==
    IF parts = <<>> THEN <<>>
    ELSE (IF Truthy(StrStrip(Head(parts))) THEN <<StrStrip(Head(parts))>> ELSE <<>>)
         \o NonBlank(Tail(parts))

CategoryIds(paper) ==
    LET categories_str == Get(paper, "categories", <<>>)
    IN IF Truthy(categories_str) THEN NonBlank(SplitOn(categories_str, " ")) ELSE <<>>

PaperAuthors(paper) == AuthorNames(Get(paper, "authors_parsed", <<>>))

\* lines 182-237: the five parameter lists of a batch
PapersData(papers_batch) ==
    [i \in 1..Len(papers_batch) |-> PaperRow(papers_batch[i])]

AuthorRelationships(papers_batch) ==
    Concat([i \in 1..Len(papers_batch) |->
        LET names == PaperAuthors(papers_batch[i])
        IN [j \in 1..Len(names) |->
               [author_name |-> names[j], paper_id |-> papers_batch[i].id]]])

CategoryRelationships(papers_batch) ==
    Concat([i \in 1..Len(papers_batch) |->
        LET ids == CategoryIds(papers_batch[i])
        IN [j \in 1..Len(ids) |->
               [category_id |-> ids[j], paper_id |-> papers_batch[i].id]]])

AuthorsData(papers_batch) ==
    LET rels == AuthorRelationships(papers_batch)
    IN [i \in 1..Len(rels) |-> rels[i].author_name]

CategoriesData(papers_batch) ==
    LET rels == CategoryRelationships(papers_batch)
    IN [i \in 1..Len(rels) |-> rels[i].category_id]

(***************************************************************************)
(* The statements of _process_active_papers_batch, numbered in program     *)
(* order: 1 the Paper MERGE (240), 2 the Author MERGE (256), 3 the         *)
(* Category MERGE (263), 4 the WROTE delete (273), 5 the WROTE merge       *)
(* (280), 6 the HAS_CATEGORY delete (290), 7 the HAS_CATEGORY merge (297). *)
(***************************************************************************)
NumStatements == 7

\* whether statement i is issued for the batch (lines 255, 262, 270, 288)
Issued(papers_batch, i) ==
    CASE i = 1 -> TRUE
      [] i = 2 -> AuthorsData(papers_batch) # <<>>
      [] i = 3 -> CategoriesData(papers_batch) # <<>>
      [] i \in {4, 5} -> AuthorRelationships(papers_batch) # <<>>
      [] OTHER -> CategoryRelationships(papers_batch) # <<>>

\* the statements with the edge creations where the Author and Category
\* upserts are, and the other way round
StatementEdgesFirst(g, papers_batch, i, now) ==
    CASE i = 1 -> [g EXCEPT !.papers = MergePapers(@, PapersData(papers_batch), now)]
      [] i = 5 -> [g EXCEPT !.authors = MergeAllInBag(@, AuthorsData(papers_batch))]
      [] i = 7 -> [g EXCEPT !.categories = MergeAllInBag(@, CategoriesData(papers_batch))]
      [] i = 4 -> DeleteWroteOf(g, {rel.paper_id :
                                    rel \in SeqToSet(AuthorRelationships(papers_batch))})
      [] i = 2 -> CreateWrote(g, AuthorRelationships(papers_batch))
      [] i = 6 -> DeleteHasCategoryOf(g, {rel.paper_id :
                                    rel \in SeqToSet(CategoryRelationships(papers_batch))})
      [] OTHER -> CreateHasCategory(g, CategoryRelationships(papers_batch))

\* the effect of statement i
Statement(g, papers_batch, i, now) ==
    CASE i = 1 -> [g EXCEPT !.papers = MergePapers(@, PapersData(papers_batch), now)]
      [] i = 2 -> [g EXCEPT !.authors = MergeAllInBag(@, AuthorsData(papers_batch))]
      [] i = 3 -> [g EXCEPT !.categories = MergeAllInBag(@, CategoriesData(papers_batch))]
      [] i = 4 -> DeleteWroteOf(g, {rel.paper_id :
                                    rel \in SeqToSet(AuthorRelationships(papers_batch))})
      [] i = 5 -> CreateWrote(g, AuthorRelationships(papers_batch))
      [] i = 6 -> DeleteHasCategoryOf(g, {rel.paper_id :
                                    rel \in SeqToSet(CategoryRelationships(papers_batch))})
      [] OTHER -> CreateHasCategory(g, CategoryRelationships(papers_batch))

\* The statement that raises: the one the store fails at (failAt, 0 for none),
\* or the Paper MERGE when a row has a null arxiv_id (Neo4j refuses to MERGE
\* on a null property value); 0 when none raises.
RaisingStatement(papers_batch, failAt) ==
    IF \E i \in 1..Len(papers_batch) : papers_batch[i].id = NoneStr THEN 1
    ELSE IF failAt \in 1..NumStatements /\ Issued(papers_batch, failAt) THEN failAt
    ELSE 0

RECURSIVE RunStatements(_, _, _, _, _)
RunStatements(g, papers_batch, i, stop, now) ==
    IF i > NumStatements \/ i = stop THEN g
    ELSE RunStatements(IF Issued(papers_batch, i)
                       THEN Statement(g, papers_batch, i, now) ELSE g,
                       papers_batch, i + 1, stop, now)

\* _process_active_papers_batch: the graph it leaves and whether it raised
ProcessActivePapersBatch(g, papers_batch, now, failAt) ==
    LET stop == RaisingStatement(papers_batch, failAt)
    IN [graph |-> RunStatements(g, papers_batch, 1, stop, now), raised |-> stop # 0]

\* delete_paper
DeletePaper(g, arxiv_id) ==
    [graph |-> DetachDelete(g, arxiv_id),
     deleted_count |-> Cardinality(PapersByArxivId(g, arxiv_id))]

\* lines 149-150
IsDeleted(paper) == Get(paper, "status", "") = "deleted"

RECURSIVE FilterDeleted(_, _)
FilterDeleted(papers_batch, want) ==
    IF papers_batch = <<>> THEN <<>>
    ELSE (IF IsDeleted(Head(papers_batch)) = want THEN <<Head(papers_batch)>> ELSE <<>>)
         \o FilterDeleted(Tail(papers_batch), want)

\* lines 153-159: the deletions, one statement each; failDel is the position in
\* deleted_papers of the delete the store fails at (0 for none)
RECURSIVE HandleDeletions(_, _, _, _, _)
HandleDeletions(g, deleted_papers, i, failDel, stats) ==
    IF i > Len(deleted_papers) THEN [graph |-> g, stats |-> stats]
    ELSE IF i = failDel
         THEN HandleDeletions(g, deleted_papers, i + 1, failDel,
                              [stats EXCEPT !.errors = @ + 1])
         ELSE HandleDeletions(DeletePaper(g, deleted_papers[i].id).graph,
                              deleted_papers, i + 1, failDel,
                              [stats EXCEPT !.deleted = @ + 1])

\* lines 132-133: the deleted_count each delete_paper call of a batch reads;
\* the call the store fails reads none
RECURSIVE DeletedCounts(_, _, _, _)
DeletedCounts(g, deleted_papers, i, failDel) ==
    IF i > Len(deleted_papers) THEN <<>>
    ELSE IF i = failDel THEN DeletedCounts(g, deleted_papers, i + 1, failDel)
         ELSE <<DeletePaper(g, deleted_papers[i].id).deleted_count>>
              \o DeletedCounts(DeletePaper(g, deleted_papers[i].id).graph,
                               deleted_papers, i + 1, failDel)

NoFault == [del |-> 0, stmt |-> 0]

\* an upsert that counts a failed batch of active records as one error
UpsertPaperBatchOneError(g, papers_batch, now, fault) ==
    IF papers_batch = <<>>
    THEN [graph |-> g, stats |-> [updated |-> 0, deleted |-> 0, errors |-> 0]]
    ELSE
    LET deleted_papers == FilterDeleted(papers_batch, TRUE)
        active_papers == FilterDeleted(papers_batch, FALSE)
        del == HandleDeletions(g, deleted_papers, 1, fault.del,
                               [updated |-> 0, deleted |-> 0, errors |-> 0])
        act == ProcessActivePapersBatch(del.graph, active_papers, now, fault.stmt)
    IN IF active_papers = <<>> THEN del
       ELSE [graph |-> act.graph,
             stats |-> IF act.raised
                       THEN [del.stats EXCEPT !.errors = @ + 1]
                       ELSE [del.stats EXCEPT !.updated = @ + Len(active_papers)]]

\* an upsert that writes the active records before it handles the deletions
UpsertPaperBatchActiveFirst(g, papers_batch, now, fault) ==
    IF papers_batch = <<>>
    THEN [graph |-> g, stats |-> [updated |-> 0, deleted |-> 0, errors |-> 0]]
    ELSE
    LET deleted_papers == FilterDeleted(papers_batch, TRUE)
        active_papers == FilterDeleted(papers_batch, FALSE)
        act == ProcessActivePapersBatch(g, active_papers, now, fault.stmt)
        first == IF active_papers = <<>> THEN g ELSE act.graph
        del == HandleDeletions(first, deleted_papers, 1, fault.del,
                               [updated |-> 0, deleted |-> 0, errors |-> 0])
    IN IF active_papers = <<>> THEN del
       ELSE [graph |-> del.graph,
             stats |-> IF act.raised
                       THEN [del.stats EXCEPT !.errors = @ + Len(active_papers)]
                       ELSE [del.stats EXCEPT !.updated = @ + Len(active_papers)]]

\* upsert_paper_batch: the graph it leaves and the stats it returns
UpsertPaperBatch(g, papers_batch, now, fault) ==
    IF papers_batch = <<>>
    THEN [graph |-> g, stats |-> [updated |-> 0, deleted |-> 0, errors |-> 0]]
    ELSE
    LET deleted_papers == FilterDeleted(papers_batch, TRUE)
        active_papers == FilterDeleted(papers_batch, FALSE)
        del == HandleDeletions(g, deleted_papers, 1, fault.del,
                               [updated |-> 0, deleted |-> 0, errors |-> 0])
        act == ProcessActivePapersBatch(del.graph, active_papers, now, fault.stmt)
    IN IF active_papers = <<>> THEN del
       ELSE [graph |-> act.graph,
             stats |-> IF act.raised
                       THEN [del.stats EXCEPT !.errors = @ + Len(active_papers)]
                       ELSE [del.stats EXCEPT !.updated = @ + Len(active_papers)]]

(***************************************************************************)
(* openalex_loader.py: the DOI -> OpenAlex identifier matcher.  A work is  *)
(* a record [id, doi, referenced_works]; a file is a sequence of works.    *)
(***************************************************************************)
DoiPrefix == <<"h", "t", "t", "p", "s", ":", "/", "/", "d", "o", "i", ".", "o", "r", "g", "/">>

IsPrefix(p, s) == Len(p) <= Len(s) /\ SubSeq(s, 1, Len(p)) = p

\* s.replace(old, ""): every non-overlapping occurrence, left to right
RECURSIVE RemoveAll(_, _)
RemoveAll(s, old) ==
    IF s = <<>> THEN <<>>
    ELSE IF IsPrefix(old, s) THEN RemoveAll(SubSeq(s, Len(old) + 1, Len(s)), old)
         ELSE <<Head(s)>> \o RemoveAll(Tail(s), old)

\* line 103
CleanDoi(doi) == RemoveAll(doi, DoiPrefix)

\* _load_neo4j_dois, lines 63-69: the query behind the cache
LoadNeo4jDois(g) ==
    {g.papers[n].doi : n \in {m \in DOMAIN g.papers : Truthy(g.papers[m].doi)}}

\* _process_batch_bulk, lines 164-169: one row of the UNWIND
RECURSIVE SetOpenAlexIds(_, _)
SetOpenAlexIds(papers, updates) ==
    IF updates = <<>> THEN papers
    ELSE LET update == Head(updates)
             matched == IF update.doi = NoneStr THEN {}
                        ELSE {n \in DOMAIN papers : papers[n].doi = update.doi}
         IN SetOpenAlexIds([n \in DOMAIN papers |->
                               IF n \in matched
                               THEN [papers[n] EXCEPT !.openalex_id = update.openalex_id]
                               ELSE papers[n]],
                           Tail(updates))

RECURSIVE CountMatched(_, _)
CountMatched(g, updates) ==
    IF updates = <<>> THEN 0
    ELSE Cardinality(PapersByDoi(g, Head(updates).doi)) + CountMatched(g, Tail(updates))

\* _process_batch_bulk: the graph it leaves and the count it returns
ProcessBatchBulk(g, updates) ==
    IF updates = <<>> THEN [graph |-> g, matched |-> 0]
    ELSE [graph |-> [g EXCEPT !.papers = SetOpenAlexIds(@, updates)],
          matched |-> CountMatched(g, updates)]

\* process_file_optimized, lines 92-136, from line i of the file on
RECURSIVE ProcessFileOptimizedFrom(_, _, _, _, _, _, _)
ProcessFileOptimizedFrom(g, file, i, neo4j_dois, update_batch, batch_size, matches) ==
    IF i > Len(file)
    THEN LET last == ProcessBatchBulk(g, update_batch)
         IN [graph |-> last.graph, neo4j_matches |-> matches + last.matched]
    ELSE LET work == file[i] IN
         IF Truthy(work.doi) /\ Truthy(work.id)
         THEN LET clean_doi == CleanDoi(work.doi)
                  batch == IF clean_doi \in neo4j_dois
                           THEN Append(update_batch,
                                       [doi |-> clean_doi, openalex_id |-> work.id])
                           ELSE update_batch
              IN IF Len(batch) >= batch_size
                 THEN LET flushed == ProcessBatchBulk(g, batch)
                      IN ProcessFileOptimizedFrom(flushed.graph, file, i + 1, neo4j_dois,
                                                  <<>>, batch_size,
                                                  matches + flushed.matched)
                 ELSE ProcessFileOptimizedFrom(g, file, i + 1, neo4j_dois, batch,
                                               batch_size, matches)
         ELSE ProcessFileOptimizedFrom(g, file, i + 1, neo4j_dois, update_batch,
                                       batch_size, matches)

ProcessFileOptimized(g, file, neo4j_dois, batch_size) ==
    ProcessFileOptimizedFrom(g, file, 1, neo4j_dois, <<>>, batch_size, 0)

(***************************************************************************)
(* arxiv_loader_optimized.py: the snapshot load.  process_paper_batch      *)
(* builds the parameter lists as the updater does and issues the five      *)
(* MERGE statements (1, 2, 3, 5 and 7 of the updater's numbering); its     *)
(* Paper SET has no last_modified.                                         *)
(***************************************************************************)
LoaderStatements == {1, 2, 3, 5, 7}

\* lines 107-118: MERGE (p:Paper {arxiv_id}) SET p.title = ..., p.update_date:
\* the updater's statement, which also sets last_modified (before: the Papers
\* as they were, after: as the updater's statement would leave them)
KeepLastModified(before, after) ==
    [n \in DOMAIN after |->
        [after[n] EXCEPT !.last_modified =
            IF n \in DOMAIN before THEN before[n].last_modified ELSE NoneTime]]

LoadPapers(papers, papers_data) ==
    KeepLastModified(papers, MergePapers(papers, papers_data, NoneTime))

\* the effect of statement i of process_paper_batch
LoaderStatement(g, papers_batch, i) ==
    IF i = 1 THEN [g EXCEPT !.papers = LoadPapers(@, PapersData(papers_batch))]
    ELSE Statement(g, papers_batch, i, NoneTime)

RECURSIVE RunLoaderStatements(_, _, _, _)
RunLoaderStatements(g, papers_batch, i, stop) ==
    IF i > NumStatements \/ i = stop THEN g
    ELSE RunLoaderStatements(IF i \in LoaderStatements /\ Issued(papers_batch, i)
                             THEN LoaderStatement(g, papers_batch, i) ELSE g,
                             papers_batch, i + 1, stop)

\* process_paper_batch, lines 38-151: the graph it leaves and whether it
\* raised (it has no try: a statement the store refuses raises out of it)
ProcessPaperBatch(g, papers_batch, failAt) ==
    LET stop == RaisingStatement(papers_batch, failAt)
    IN [graph |-> RunLoaderStatements(g, papers_batch, 1, stop), raised |-> stop # 0]

\* the papers on the lines numbered idx
LinesAt(lines, idx) == [k \in 1..Len(idx) |-> lines[idx[k]]]

\* load_arxiv_data, lines 167-198, from line i on.  batch holds the numbers
\* of the lines in the batch; fault names the call of process_paper_batch the
\* store fails and the statement it fails at; handed lists the calls made.
\* A call that raises inside the loop is caught at line 192, which skips the
\* reset of line 184; the call of line 198 is outside the try.
\* a line json.loads rejects (JSONDecodeError, caught at line 187), and a line
\* whose bytes are not UTF-8: the file is opened with encoding='utf-8' (line
\* 157) and the iteration of line 162, which is outside the try, raises
MalformedLine == [malformed |-> TRUE]
UndecodableLine == [undecodable |-> TRUE]

RECURSIVE LoadArxivDataFrom(_, _, _, _, _, _, _)
LoadArxivDataFrom(g, lines, i, batch, batch_size, fault, calls) ==
    LET failAt == IF fault.call = Len(calls) + 1 THEN fault.stmt ELSE 0
    IN IF i > Len(lines)
       THEN IF batch = <<>> THEN [graph |-> g, raised |-> FALSE, handed |-> calls]
            ELSE LET last == ProcessPaperBatch(g, LinesAt(lines, batch), failAt)
                 IN [graph |-> last.graph, raised |-> last.raised,
                     handed |-> Append(calls, [lines |-> batch,
                                               raised |-> last.raised])]
       ELSE IF lines[i] = UndecodableLine
       THEN [graph |-> g, raised |-> TRUE, handed |-> calls]
       ELSE IF lines[i] = MalformedLine
       THEN LoadArxivDataFrom(g, lines, i + 1, batch, batch_size, fault, calls)
       ELSE LET grown == Append(batch, i)
            IN IF Len(grown) >= batch_size
               THEN LET call == ProcessPaperBatch(g, LinesAt(lines, grown), failAt)
                    IN LoadArxivDataFrom(call.graph, lines, i + 1,
                                         IF call.raised THEN grown ELSE <<>>,
                                         batch_size, fault,
                                         Append(calls, [lines |-> grown,
                                                        raised |-> call.raised]))
               ELSE LoadArxivDataFrom(g, lines, i + 1, grown, batch_size, fault, calls)

LoadArxivData(g, lines, batch_size, fault) ==
    LoadArxivDataFrom(g, lines, 1, <<>>, batch_size, fault, <<>>)

(***************************************************************************)
(* fast_openalex_loader.py, ultra_fast_loader.py and                       *)
(* production_openalex_loader.py: the matchers that send every work with a *)
(* DOI and an id to the store and leave the filtering to its MATCH.        *)
(***************************************************************************)
\* _process_batch_fast, lines 149-154: the statement of _process_batch_bulk
ProcessBatchFast(g, updates) ==
    IF updates = <<>> THEN [graph |-> g, matched |-> 0]
    ELSE [graph |-> [g EXCEPT !.papers = SetOpenAlexIds(@, updates)],
          matched |-> CountMatched(g, updates)]

\* _process_batch_ultra_fast, lines 156-161: the same statement again
ProcessBatchUltraFast(g, updates) ==
    IF updates = <<>> THEN [graph |-> g, matched |-> 0]
    ELSE [graph |-> [g EXCEPT !.papers = SetOpenAlexIds(@, updates)],
          matched |-> CountMatched(g, updates)]

\* MATCH (p:Paper {doi: update.doi}) WHERE p.openalex_id IS NULL, read for
\* every row of the UNWIND before the SET clause writes
UnmatchedByDoi(g, k) ==
    {n \in PapersByDoi(g, k) : g.papers[n].openalex_id = NoneStr}

\* _process_batch_production, lines 177-181: the SET, row by row, on the
\* Papers the MATCH and its WHERE kept
RECURSIVE SetOpenAlexIdsWhereNull(_, _, _)
SetOpenAlexIdsWhereNull(g, papers, updates) ==
    IF updates = <<>> THEN papers
    ELSE LET update == Head(updates)
             matched == UnmatchedByDoi(g, update.doi)
         IN SetOpenAlexIdsWhereNull(g,
                [n \in DOMAIN papers |->
                    IF n \in matched
                    THEN [papers[n] EXCEPT !.openalex_id = update.openalex_id]
                    ELSE papers[n]],
                Tail(updates))

RECURSIVE CountUnmatched(_, _)
CountUnmatched(g, updates) ==
    IF updates = <<>> THEN 0
    ELSE Cardinality(UnmatchedByDoi(g, Head(updates).doi))
         + CountUnmatched(g, Tail(updates))

\* _process_batch_production: the graph it leaves and the count it returns
ProcessBatchProduction(g, updates) ==
    IF updates = <<>> THEN [graph |-> g, matched |-> 0]
    ELSE [graph |-> [g EXCEPT !.papers = SetOpenAlexIdsWhereNull(g, @, updates)],
          matched |-> CountUnmatched(g, updates)]

\* the batch function of each of the three loaders
ProcessBatchOf(loader, g, updates) ==
    CASE loader = "fast" -> ProcessBatchFast(g, updates)
      [] loader = "ultra_fast" -> ProcessBatchUltraFast(g, updates)
      [] OTHER -> ProcessBatchProduction(g, updates)

\* process_file_fast (lines 83-122), process_file_ultra_fast (lines 88-125)
\* and process_file_production (lines 105-150), which read a file the same
\* way, from line i of the file on
RECURSIVE ProcessFileStoreSideFrom(_, _, _, _, _, _, _)
ProcessFileStoreSideFrom(loader, g, file, i, update_batch, batch_size, matches) ==
    IF i > Len(file)
    THEN LET last == ProcessBatchOf(loader, g, update_batch)
         IN [graph |-> last.graph, neo4j_matches |-> matches + last.matched]
    ELSE LET work == file[i] IN
         IF Truthy(work.doi) /\ Truthy(work.id)
         THEN LET batch == Append(update_batch,
                                  [doi |-> CleanDoi(work.doi), openalex_id |-> work.id])
              IN IF Len(batch) >= batch_size
                 THEN LET flushed == ProcessBatchOf(loader, g, batch)
                      IN ProcessFileStoreSideFrom(loader, flushed.graph, file, i + 1,
                                                  <<>>, batch_size,
                                                  matches + flushed.matched)
                 ELSE ProcessFileStoreSideFrom(loader, g, file, i + 1, batch,
                                               batch_size, matches)
         ELSE ProcessFileStoreSideFrom(loader, g, file, i + 1, update_batch,
                                       batch_size, matches)

ProcessFileFast(g, file, batch_size) ==
    ProcessFileStoreSideFrom("fast", g, file, 1, <<>>, batch_size, 0)

ProcessFileUltraFast(g, file, batch_size) ==
    ProcessFileStoreSideFrom("ultra_fast", g, file, 1, <<>>, batch_size, 0)

ProcessFileProduction(g, file, batch_size) ==
    ProcessFileStoreSideFrom("production", g, file, 1, <<>>, batch_size, 0)

(***************************************************************************)
(* citation_loader.py: the citation builder.                               *)
(***************************************************************************)
\* _load_neo4j_openalex_ids, lines 108-114: the query behind the cache
LoadNeo4jOpenAlexIds(g) ==
    {g.papers[n].openalex_id :
        n \in {m \in DOMAIN g.papers : Truthy(g.papers[m].openalex_id)}}

\* the candidate pairs without the test of line 159
RECURSIVE ReferencePairsUnchecked(_, _, _)
ReferencePairsUnchecked(citing_id, referenced_works, neo4j_openalex_ids) ==
    IF referenced_works = <<>> THEN <<>>
    ELSE <<[citing_id |-> citing_id, cited_id |-> Head(referenced_works)]>>
         \o ReferencePairsUnchecked(citing_id, Tail(referenced_works),
                                    neo4j_openalex_ids)

\* lines 154-160: the candidate pairs of one work
RECURSIVE ReferencePairs(_, _, _)
ReferencePairs(citing_id, referenced_works, neo4j_openalex_ids) ==
    IF referenced_works = <<>> THEN <<>>
    ELSE (IF Head(referenced_works) \in neo4j_openalex_ids
          THEN <<[citing_id |-> citing_id, cited_id |-> Head(referenced_works)]>>
          ELSE <<>>)
         \o ReferencePairs(citing_id, Tail(referenced_works), neo4j_openalex_ids)

\* lines 148-149
ContributesCitations(work, neo4j_openalex_ids) ==
    /\ Truthy(work.id)
    /\ work.referenced_works # <<>>
    /\ work.id \in neo4j_openalex_ids

\* _create_citation_batch, lines 213-217: MATCH both ends, MERGE the edge
RECURSIVE MergeCites(_, _)
MergeCites(g, citations) ==
    IF citations = <<>> THEN g
    ELSE LET citation == Head(citations)
             ends == PapersByOpenAlexId(g, citation.citing_id)
                     \X PapersByOpenAlexId(g, citation.cited_id)
             edges == [e \in DOMAIN g.cites \cup ends |->
                          IF e \in DOMAIN g.cites THEN g.cites[e] ELSE 1]
         IN MergeCites([g EXCEPT !.cites = edges], Tail(citations))

RECURSIVE CountCitationRows(_, _)
CountCitationRows(g, citations) ==
    IF citations = <<>> THEN 0
    ELSE Cardinality(PapersByOpenAlexId(g, Head(citations).citing_id)
                     \X PapersByOpenAlexId(g, Head(citations).cited_id))
         + CountCitationRows(g, Tail(citations))

\* a flush that creates the edge of the first row of the batch only
CreateCitationBatchHeadOnly(g, citations, failed) ==
    IF citations = <<>> \/ failed THEN [graph |-> g, created |-> 0]
    ELSE [graph |-> MergeCites(g, <<Head(citations)>>),
          created |-> CountCitationRows(g, <<Head(citations)>>)]

\* _create_citation_batch: failed is TRUE when the store raises, which the
\* except of line 222 turns into 0 created
CreateCitationBatch(g, citations, failed) ==
    IF citations = <<>> \/ failed THEN [graph |-> g, created |-> 0]
    ELSE [graph |-> MergeCites(g, citations),
          created |-> CountCitationRows(g, citations)]

\* process_file_citations, lines 138-183, from line i of the file on.  The
\* file is read as text (gzip.open(file_path, 'rt'), line 137): a line that
\* does not decode raises in the iteration of line 138, outside the inner try,
\* and the except of line 185 ends the file; a line json.loads rejects is
\* passed over at line 176.
RECURSIVE ProcessFileCitationsFrom(_, _, _, _, _, _, _)
ProcessFileCitationsFrom(g, file, i, ids, citation_batch, batch_size, created) ==
    IF i > Len(file)
    THEN LET last == CreateCitationBatch(g, citation_batch, FALSE)
         IN [graph |-> last.graph, successful_citations |-> created + last.created]
    ELSE IF file[i] = UndecodableLine
    THEN [graph |-> g, successful_citations |-> created]
    ELSE IF file[i] = MalformedLine
    THEN ProcessFileCitationsFrom(g, file, i + 1, ids, citation_batch, batch_size,
                                  created)
    ELSE LET work == file[i] IN
         IF ContributesCitations(work, ids)
         THEN LET batch == citation_batch
                           \o ReferencePairs(work.id, work.referenced_works, ids)
              IN IF Len(batch) >= batch_size
                 THEN LET flushed == CreateCitationBatch(g, batch, FALSE)
                      IN ProcessFileCitationsFrom(flushed.graph, file, i + 1, ids, <<>>,
                                                  batch_size, created + flushed.created)
                 ELSE ProcessFileCitationsFrom(g, file, i + 1, ids, batch, batch_size,
                                               created)
         ELSE ProcessFileCitationsFrom(g, file, i + 1, ids, citation_batch, batch_size,
                                       created)

\* the batches process_file_citations hands to _create_citation_batch, in
\* order: lines 163-166 inside the loop and lines 181-183 after it
RECURSIVE CitationFlushesFrom(_, _, _, _, _, _)
CitationFlushesFrom(file, i, ids, citation_batch, batch_size, flushes) ==
    IF i > Len(file)
    THEN IF citation_batch # <<>> THEN Append(flushes, citation_batch) ELSE flushes
    ELSE IF file[i] = UndecodableLine THEN flushes
    ELSE IF file[i] = MalformedLine
    THEN CitationFlushesFrom(file, i + 1, ids, citation_batch, batch_size, flushes)
    ELSE LET work == file[i] IN
         IF ContributesCitations(work, ids)
         THEN LET batch == citation_batch
                           \o ReferencePairs(work.id, work.referenced_works, ids)
              IN IF Len(batch) >= batch_size
                 THEN CitationFlushesFrom(file, i + 1, ids, <<>>, batch_size,
                                          Append(flushes, batch))
                 ELSE CitationFlushesFrom(file, i + 1, ids, batch, batch_size, flushes)
         ELSE CitationFlushesFrom(file, i + 1, ids, citation_batch, batch_size,
                                  flushes)

CitationFlushes(file, ids, batch_size) ==
    CitationFlushesFrom(file, 1, ids, <<>>, batch_size, <<>>)

ProcessFileCitations(g, file, ids, batch_size) ==
    ProcessFileCitationsFrom(g, file, 1, ids, <<>>, batch_size, 0)

(***************************************************************************)
(* arxiv_updater.py: the update ledger.  updateLog is the set of UpdateLog *)
(* nodes, each [id, last_update_time, update_count]; last_update_time is   *)
(* the ISO text of an instant.                                             *)
(***************************************************************************)
SevenDays == 7

\* datetime.isoformat() and datetime.fromisoformat()
IsoFormat(t) == <<"iso", t>>

FromIsoFormat(text) == text[2]

SetMax(S) == CHOOSE x \in S : \A y \in S : y <= x

\* the fallback with the Paper dates asked before the ledger
GetLastUpdateTimestampPapersFirst(log, g, now) ==
    LET times == {FromIsoFormat(u.last_update_time) : u \in log}
        dates == {g.papers[n].update_date : n \in DOMAIN g.papers} \ {NoneTime}
    IN IF dates # {} THEN SetMax(dates)
       ELSE IF times # {} THEN SetMax(times)
       ELSE now - SevenDays

\* get_last_update_timestamp: ORDER BY u.last_update_time DESC LIMIT 1 takes
\* the latest node
GetLastUpdateTimestamp(log, g, now) ==
    LET times == {FromIsoFormat(u.last_update_time) : u \in log}
        dates == {g.papers[n].update_date : n \in DOMAIN g.papers} \ {NoneTime}
    IN IF times # {} THEN SetMax(times)
       ELSE IF dates # {} THEN SetMax(dates)
       ELSE now - SevenDays

\* a ledger written with CREATE where the code has MERGE
RecordUpdateTimestampCreate(log, timestamp) ==
    log \cup {[id |-> "main", last_update_time |-> IsoFormat(timestamp),
               update_count |-> 1]}

\* record_update_timestamp: MERGE (u:UpdateLog {id: 'main'}) SET ...
RecordUpdateTimestamp(log, timestamp) ==
    LET matched == {u \in log : u.id = "main"}
    IN IF matched = {}
       THEN log \cup {[id |-> "main", last_update_time |-> IsoFormat(timestamp),
                       update_count |-> 1]}
       ELSE (log \ matched)
            \cup {[u EXCEPT !.last_update_time = IsoFormat(timestamp),
                            !.update_count = @ + 1] : u \in matched}

(***************************************************************************)
(* The inputs the model draws from.                                        *)
(***************************************************************************)
OaiId(k) == <<"o", ":">> \o k

Header(identifier, datestamp, setSpec) ==
    [identifier |-> identifier, datestamp |-> datestamp, setSpec |-> setSpec]

ActiveElem(identifier, datestamp, setSpec, dc) ==
    [header |-> Header(identifier, datestamp, setSpec), metadata |-> [dc |-> dc]]

DeletedElem(identifier, datestamp) ==
    [header |-> [identifier |-> identifier, datestamp |-> datestamp,
                 status |-> "deleted"]]

\* <record> elements of active records
ActiveElems ==
    { ActiveElem(OaiId(<<"1">>), <<"1">>, << <<"c">> >>,
                 << <<"title", <<"T">> >>, <<"creator", <<"A">> >>,
                    <<"creator", <<"B">> >> >>),
      ActiveElem(OaiId(<<"1">>), <<"2">>, << <<"c">>, <<"m">> >>,
                 << <<"title", <<"U">> >>, <<"creator", <<"C">> >> >>),
      ActiveElem(OaiId(<<"2">>), <<"1">>, <<>>,
                 << <<"title", <<"T">> >>, <<"creator", <<"J", " ", "D">> >> >>),
      ActiveElem(OaiId(<<"2">>), <<"x">>, << <<"m">> >>,
                 << <<"title", <<"U">> >>, <<"creator", <<" ">> >> >>) }

\* what the harvest pipeline hands to upsert_paper_batch for them
HarvestedPapers ==
    {paper \in {ConvertOaiRecordToPaperData(ParseRecord(e)) : e \in ActiveElems} :
        ~IsNone(paper)}

\* deletion records that carry their key
DeletionRecords == { [id |-> <<"1">>, status |-> "deleted"] }

PaperRecords == HarvestedPapers \cup DeletionRecords

\* records of the shape of the arXiv metadata snapshot (arxiv_loader.py)
SnapshotPapers ==
    { [id |-> <<"1">>, title |-> <<"T">>, doi |-> <<"d">>, update_date |-> <<"1">>,
       categories |-> <<"c">>, authors_parsed |-> << << <<"A">>, <<>>, <<>> >> >>],
      [id |-> <<"2">>, title |-> <<"U">>, doi |-> <<"e">>, update_date |-> <<"2">>,
       categories |-> <<"m">>, authors_parsed |-> << << <<"D">>, <<"J">>, <<>> >> >>],
      [id |-> <<"2">>, title |-> <<"U">>, doi |-> <<"d">>, update_date |-> <<"2">>,
       categories |-> <<"m">>, authors_parsed |-> << << <<"D">>, <<"J">>, <<>> >> >>] }

SeqsUpTo(S, n) == UNION {[1..k -> S] : k \in 0..n}

\* the lines of the OpenAlex corpus
Works ==
    { [id |-> <<"W1">>, doi |-> DoiPrefix \o <<"d">>,
       referenced_works |-> << <<"W2">>, <<"W3">> >>],
      [id |-> <<"W2">>, doi |-> DoiPrefix \o <<"e">>, referenced_works |-> <<>>],
      [id |-> <<"W2">>, doi |-> NoneStr, referenced_works |-> << <<"W1">> >>] }

(***************************************************************************)
(* The state.                                                              *)
(***************************************************************************)
VARIABLES
    graph,               \* the Paper/Author/Category graph
    updateLog,           \* the UpdateLog nodes
    now,                 \* the instant the next read of the clock returns
    neo4j_dois,          \* OptimizedCitationLoader.neo4j_dois
    neo4j_openalex_ids,  \* CitationLoader.neo4j_openalex_ids
    op,                  \* the operation that ran last
    lastBatch,           \* the batch upsert_paper_batch was last given
    deleted_counts,      \* delete_paper's deleted_count, call by call, in that batch
    stats,               \* the counters the last operation returned
    pc,                  \* where run_incremental_update stands
    runs,                \* the runs started so far
    last_update,         \* the run's last_update (line 309)
    resumption_token,    \* harvest_incremental's resumption_token
    request_count,       \* harvest_incremental's request_count
    total_stats,         \* the run's total_stats
    outcome,             \* how the last run ended
    ledgerAtStart,       \* updateLog when the run started
    takenAt,             \* the instant the latest page of a harvest was taken
    lastPage,            \* the records of the page harvested last
    params,              \* the params of the list_records request issued last
    pausedBefore,        \* the sleeps between that request and the one before
    burst,               \* the HTTP requests issued since the last sleep
    peak,                \* the longest run of HTTP requests without a sleep
    retries,             \* the requests that failed in a row (MaxRetries: or more)
    serverDown,          \* the server fails every request from now on
    lastFile,            \* the file and batch size the matcher was last given
    workers,             \* the concurrent upserts: batch, clock value, next statement
    startGraph,          \* the graph when the concurrent upserts began
    handed               \* the calls of process_paper_batch in the last load

harvestLog == <<params, pausedBefore, burst, peak, retries, serverDown>>

runVars == <<pc, runs, last_update, resumption_token, request_count, total_stats,
             outcome, ledgerAtStart, takenAt, lastPage, harvestLog>>

vars == <<graph, updateLog, now, neo4j_dois, neo4j_openalex_ids, op, lastBatch,
          deleted_counts, stats,
          runVars, lastFile, workers, startGraph, handed>>

ClockStart == 10

\* a cache that has not been loaded (None)
NotLoaded == {NoneStr}

NoStats == [updated |-> 0, deleted |-> 0, errors |-> 0]

\* no matcher call to describe
NoFile == [file |-> <<>>, batch_size |-> 0]

\* the two processes that upsert at the same time, and one that is not running
Workers == {1, 2}

Idle == [batch |-> <<>>, now |-> NoneTime, next |-> 0]

Init ==
    /\ graph = EmptyGraph
    /\ updateLog = {}
    /\ now = ClockStart
    /\ neo4j_dois = NotLoaded
    /\ neo4j_openalex_ids = NotLoaded
    /\ op = "init"
    /\ lastBatch = <<>>
    /\ deleted_counts = <<>>
    /\ stats = NoStats
    /\ pc = "idle"
    /\ runs = 0
    /\ last_update = NoneTime
    /\ resumption_token = NoneStr
    /\ request_count = 0
    /\ total_stats = NoStats
    /\ outcome = "none"
    /\ ledgerAtStart = {}
    /\ takenAt = NoneTime
    /\ lastPage = <<>>
    /\ params = NoneRec
    /\ pausedBefore = <<>>
    /\ burst = 0
    /\ peak = 0
    /\ retries = 0
    /\ serverDown = FALSE
    /\ lastFile = NoFile
    /\ workers = [w \in Workers |-> Idle]
    /\ startGraph = EmptyGraph
    /\ handed = <<>>

\* the store failures a batch can meet: none, one delete, or one statement
Faults(papers_batch) ==
    {NoFault}
    \cup {[del |-> i, stmt |-> 0] : i \in 1..Len(FilterDeleted(papers_batch, TRUE))}
    \cup {[del |-> 0, stmt |-> i] :
            i \in {j \in 1..NumStatements :
                     Issued(FilterDeleted(papers_batch, FALSE), j)}}

\* whether the batch reads the clock (datetime() of line 251)
ReadsClock(papers_batch) == FilterDeleted(papers_batch, FALSE) # <<>>

\* upsert_paper_batch(papers_batch); the clock has moved on by the next read
Upsert(papers_batch, fault) ==
    LET result == UpsertPaperBatch(graph, papers_batch, now, fault)
    IN /\ ReadsClock(papers_batch) => now < ClockStart + MaxClock
       /\ graph' = result.graph
       /\ stats' = result.stats
       /\ op' = "upsert"
       /\ lastBatch' = papers_batch
       /\ deleted_counts' =
              DeletedCounts(graph, FilterDeleted(papers_batch, TRUE), 1, fault.del)
       /\ now' = IF ReadsClock(papers_batch) THEN now + 1 ELSE now
       /\ lastFile' = NoFile
       /\ UNCHANGED <<updateLog, neo4j_dois, neo4j_openalex_ids, runVars,
                      workers, startGraph, handed>>

UpsertBatch ==
    \E papers_batch \in SeqsUpTo(PaperRecords, MaxBatch) :
        /\ papers_batch # <<>>
        /\ Upsert(papers_batch, NoFault)

UpsertBatchFailing ==
    \E papers_batch \in SeqsUpTo(PaperRecords, MaxBatch) :
        \E fault \in Faults(papers_batch) \ {NoFault} :
            Upsert(papers_batch, fault)

Next ==
    \/ UpsertBatch
    \/ UpsertBatchFailing

Spec == Init /\ [][Next]_vars

(***************************************************************************)
(* The arXiv snapshot load, the identifier matcher and the citation        *)
(* builder over one store.                                                 *)
(***************************************************************************)
UpsertSnapshotBatch ==
    \E papers_batch \in SeqsUpTo(SnapshotPapers \cup DeletionRecords, MaxBatch) :
        /\ papers_batch # <<>>
        /\ Upsert(papers_batch, NoFault)

\* a loader that reads the key set from the store at every call
ReloadNeo4jDois(cache, g) == LoadNeo4jDois(g)

\* _load_neo4j_dois, lines 54-73: the cache when it is there (line 56), the
\* store's DOIs otherwise
CachedNeo4jDois(cache, g) == IF cache = NotLoaded THEN LoadNeo4jDois(g) ELSE cache

\* CitationLoader._load_neo4j_openalex_ids, lines 99-118, likewise
CachedNeo4jOpenAlexIds(cache, g) ==
    IF cache = NotLoaded THEN LoadNeo4jOpenAlexIds(g) ELSE cache

\* process_file_optimized(file, batch_size): loads the DOI cache on first use
MatchFile ==
    \E file \in SeqsUpTo(Works, MaxFile), batch_size \in 1..MaxBatch :
        LET dois == CachedNeo4jDois(neo4j_dois, graph)
            result == ProcessFileOptimized(graph, file, dois, batch_size)
        IN /\ neo4j_dois' = dois
           /\ graph' = result.graph
           /\ op' = "match"
           /\ lastBatch' = <<>>
           /\ deleted_counts' = <<>>
           /\ stats' = [NoStats EXCEPT !.updated = result.neo4j_matches]
           /\ lastFile' = [file |-> file, batch_size |-> batch_size]
           /\ UNCHANGED <<updateLog, now, neo4j_openalex_ids, runVars, workers, startGraph, handed>>

\* process_file_citations(file, batch_size): loads the id cache on first use
CiteFile ==
    \E file \in SeqsUpTo(Works, MaxFile), batch_size \in 1..MaxBatch :
        LET ids == CachedNeo4jOpenAlexIds(neo4j_openalex_ids, graph)
            result == ProcessFileCitations(graph, file, ids, batch_size)
        IN /\ neo4j_openalex_ids' = ids
           /\ graph' = result.graph
           /\ op' = "cite"
           /\ lastBatch' = <<>>
           /\ deleted_counts' = <<>>
           /\ stats' = [NoStats EXCEPT !.updated = result.successful_citations]
           /\ lastFile' = NoFile
           /\ UNCHANGED <<updateLog, now, neo4j_dois, runVars, workers, startGraph, handed>>

NextLink ==
    \/ UpsertSnapshotBatch
    \/ MatchFile
    \/ CiteFile

SpecLink == Init /\ [][NextLink]_vars

(***************************************************************************)
(* The snapshot load against a store that can refuse a statement.          *)
(***************************************************************************)
NoLoadFault == [call |-> 0, stmt |-> 0]

\* the failures a load can meet: one call of process_paper_batch refused at
\* one of its statements
LoadFaults(lines) ==
    {[call |-> c, stmt |-> i] : c \in 1..(Len(lines) + 1), i \in LoaderStatements}

\* load_arxiv_data(data_file, batch_size=batch_size)
Load(lines, batch_size, fault) ==
    \E result \in {LoadArxivData(graph, lines, batch_size, fault)} :
       /\ fault # NoLoadFault => \E k \in 1..Len(result.handed) : result.handed[k].raised
       /\ graph' = result.graph
       /\ handed' = result.handed
       /\ outcome' = IF result.raised THEN "raised" ELSE "returned"
       /\ op' = "load"
       /\ lastBatch' = <<>>
       /\ deleted_counts' = <<>>
       /\ stats' = NoStats
       /\ lastFile' = NoFile
       /\ UNCHANGED <<updateLog, now, neo4j_dois, neo4j_openalex_ids, pc, runs,
                      last_update, resumption_token, request_count, total_stats,
                      ledgerAtStart, takenAt, lastPage, harvestLog, workers, startGraph>>

LoadSnapshot ==
    \E lines \in SeqsUpTo(SnapshotPapers, MaxFile), batch_size \in 1..MaxBatch :
        /\ lines # <<>>
        /\ Load(lines, batch_size, NoLoadFault)

LoadSnapshotFailing ==
    \E lines \in SeqsUpTo(SnapshotPapers, MaxFile), batch_size \in 1..MaxBatch :
        \E fault \in LoadFaults(lines) : Load(lines, batch_size, fault)

NextLoad ==
    \/ LoadSnapshot
    \/ LoadSnapshotFailing

SpecLoad == Init /\ [][NextLoad]_vars

(***************************************************************************)
(* Two processes that each run _process_active_papers_batch on the same    *)
(* store at the same time.  Every session.run of lines 240-302 is a        *)
(* transaction of its own, so the store sees the statements of the two     *)
(* batches in any interleaving that keeps each batch's own order.          *)
(***************************************************************************)
Done == NumStatements + 1

\* the Paper keys of a batch
BatchKeys(papers_batch) == {papers_batch[i].id : i \in 1..Len(papers_batch)}

\* the first statement from i on that the batch issues (Done: none is left)
RECURSIVE NextIssued(_, _)
NextIssued(papers_batch, i) ==
    IF i > NumStatements THEN Done
    ELSE IF Issued(papers_batch, i) THEN i
    ELSE NextIssued(papers_batch, i + 1)

\* both processes are handed a batch; the batches share a Paper key
StartBatches ==
    /\ \A w \in Workers : workers[w] = Idle
    /\ now + Cardinality(Workers) <= ClockStart + MaxClock
    /\ \E x, y \in SeqsUpTo(HarvestedPapers, MaxBatch) :
          /\ BatchKeys(x) \cap BatchKeys(y) # {}
          /\ workers' = (1 :> [batch |-> x, now |-> NoneTime, next |-> 1])
                         @@ (2 :> [batch |-> y, now |-> NoneTime, next |-> 1])
    /\ startGraph' = graph
    /\ op' = "start"
    /\ UNCHANGED <<graph, updateLog, now, neo4j_dois, neo4j_openalex_ids, lastBatch,
                   deleted_counts, stats, runVars, lastFile, handed>>

\* process w issues its next statement; the Paper MERGE reads the store's
\* clock (datetime() of line 251), and a statement that raises ends the batch
RunStatement(w) ==
    LET papers_batch == workers[w].batch
        i == workers[w].next
        raises == RaisingStatement(papers_batch, 0) = i
    IN /\ i \in 1..NumStatements
       /\ graph' = IF raises THEN graph ELSE Statement(graph, papers_batch, i, now)
       /\ now' = IF i = 1 /\ ~raises THEN now + 1 ELSE now
       /\ workers' = [workers EXCEPT
                         ![w].now = IF i = 1 /\ ~raises THEN now ELSE @,
                         ![w].next = IF raises THEN Done
                                     ELSE NextIssued(papers_batch, i + 1)]
       /\ op' = "statement"
       /\ UNCHANGED <<updateLog, neo4j_dois, neo4j_openalex_ids, lastBatch,
                      deleted_counts, stats, runVars, lastFile, startGraph, handed>>

StepWorker == \E w \in Workers : RunStatement(w)

NextConc ==
    \/ StartBatches
    \/ StepWorker

SpecConc == Init /\ [][NextConc]_vars

(***************************************************************************)
(* The body of run_incremental_update's loop (lines 316-328) on pages      *)
(* whose records differ in their creators: one creator or several, tokens  *)
(* apart by one blank or two, blanks around a name, a creator of blanks    *)
(* only, a creator element without text.                                   *)
(***************************************************************************)
CreatorLists ==
    { << <<"J", " ", "Q", " ", " ", "D">> >>,
      << <<" ", "A">>, <<"B">> >>,
      << <<"A", " ">> >>,
      << NoneStr, <<"A">> >>,
      << <<" ">> >> }

CreatorElem(k, creators) ==
    ActiveElem(OaiId(k), <<"1">>, << <<"c">> >>,
               [i \in 1..Len(creators) |-> <<"creator", creators[i]>>])

CreatorElems ==
    {CreatorElem(<<"1">>, creators) : creators \in CreatorLists}
    \cup {CreatorElem(<<"2">>, << <<"B">>, <<"J", " ", "Q", " ", " ", "D">> >>)}

ConvertAndUpsert ==
    \E page \in SeqsUpTo(CreatorElems, MaxPage) :
        \E result \in {UpsertPaperBatch(graph, ConvertBatch(ParseRecords(page)),
                                        now, NoFault)} :
            /\ page # <<>>
            /\ now < ClockStart + MaxClock
            /\ lastPage' = ParseRecords(page)
            /\ lastBatch' = ConvertBatch(ParseRecords(page))
            /\ graph' = result.graph
            /\ stats' = result.stats
            /\ now' = now + 1
            /\ op' = "convert"
            /\ deleted_counts' = <<>>
            /\ lastFile' = NoFile
            /\ UNCHANGED <<updateLog, neo4j_dois, neo4j_openalex_ids, pc, runs,
                           last_update, resumption_token, request_count, total_stats,
                           outcome, ledgerAtStart, takenAt, harvestLog, workers, startGraph,
                           handed>>

NextConvert == ConvertAndUpsert

SpecConvert == Init /\ [][NextConvert]_vars

(***************************************************************************)
(* run_incremental_update over harvest_incremental.  The generator and the *)
(* loop that drains it run as one thread: a request that succeeds parses   *)
(* its page, and the loop body converts and upserts what was yielded       *)
(* before the generator goes on.  The server answers a request with any    *)
(* page and with or without a resumption token; the list it serves is      *)
(* finite, so the last request the model allows gets no token.             *)
(***************************************************************************)
BadElem == [metadata |-> [dc |-> <<>>]]

RunElems ==
    { ActiveElem(OaiId(<<"1">>), <<"1">>, << <<"c">> >>,
                 << <<"title", <<"T">> >>, <<"creator", <<"A">> >>,
                    <<"creator", <<"B">> >> >>),
      DeletedElem(OaiId(<<"1">>), <<"2">>),
      BadElem }

Token == <<"t">>

Running == pc \in {"harvesting", "drained"}

\* lines 306-312, and the generator's first lines 247-249
StartRun ==
    /\ pc = "idle"
    /\ runs < MaxRuns
    /\ runs' = runs + 1
    /\ last_update' = GetLastUpdateTimestamp(updateLog, graph, now)
    /\ total_stats' = NoStats
    /\ resumption_token' = NoneStr
    /\ request_count' = 0
    /\ pc' = "harvesting"
    /\ outcome' = "running"
    /\ ledgerAtStart' = updateLog
    /\ op' = "start"
    /\ UNCHANGED <<graph, updateLog, now, neo4j_dois, neo4j_openalex_ids, lastFile,
                   workers, startGraph, handed, lastBatch,
                   deleted_counts,
                   stats, takenAt, lastPage, harvestLog>>

\* lines 277-281: list_records raised; after the cool-down the loop goes on
\* with the resumption_token it had
RequestFails ==
    /\ pc = "harvesting"
    /\ op' = "retry"
    /\ UNCHANGED <<graph, updateLog, now, neo4j_dois, neo4j_openalex_ids, lastFile,
                   workers, startGraph, handed, lastBatch,
                   deleted_counts,
                   stats, pc, runs, last_update, resumption_token, request_count,
                   total_stats, outcome, ledgerAtStart, takenAt, lastPage, harvestLog>>

\* lines 258-275 with the loop body of lines 317-330 at the yield
Request(page, next_token, fault) ==
    LET records == ParseRecords(page)
        papers_batch == ConvertBatch(records)
        result == UpsertPaperBatch(graph, papers_batch, now, fault)
    IN /\ pc = "harvesting"
       /\ request_count + 1 >= MaxRequests => next_token = NoneStr
       /\ ReadsClock(papers_batch) => now < ClockStart + MaxClock
       /\ resumption_token' = next_token
       /\ request_count' = request_count + 1
       /\ lastPage' = records
       /\ takenAt' = now
       /\ IF records = <<>>
          THEN /\ pc' = "drained"
               /\ op' = "empty"
               /\ UNCHANGED <<graph, now, lastBatch, deleted_counts, stats, total_stats>>
          ELSE /\ pc' = IF Truthy(next_token) THEN "harvesting" ELSE "drained"
               /\ op' = "harvest"
               /\ lastBatch' = papers_batch
               /\ deleted_counts' =
                      DeletedCounts(graph, FilterDeleted(papers_batch, TRUE), 1, fault.del)
               /\ graph' = result.graph
               /\ now' = IF ReadsClock(papers_batch) THEN now + 1 ELSE now
               /\ stats' = result.stats
               /\ total_stats' =
                      IF papers_batch = <<>> THEN total_stats
                      ELSE [k \in DOMAIN total_stats |-> total_stats[k] + result.stats[k]]
       /\ UNCHANGED <<updateLog, neo4j_dois, neo4j_openalex_ids, lastFile,
                   workers, startGraph, handed, runs, last_update,
                      outcome, ledgerAtStart, harvestLog>>

HarvestPage ==
    \E page \in SeqsUpTo(RunElems, MaxPage), next_token \in {NoneStr, Token} :
        Request(page, next_token, NoFault)

HarvestPageFailing ==
    \E page \in SeqsUpTo(RunElems, MaxPage), next_token \in {NoneStr, Token} :
        \E fault \in Faults(ConvertBatch(ParseRecords(page))) \ {NoFault} :
            Request(page, next_token, fault)

\* a run that records the timestamp only when no batch was counted as errors
FinishRunUnlessErrors ==
    /\ pc = "drained"
    /\ now < ClockStart + MaxClock
    /\ updateLog' = IF total_stats.errors = 0
                    THEN RecordUpdateTimestamp(updateLog, now) ELSE updateLog
    /\ now' = now + 1
    /\ pc' = "idle"
    /\ outcome' = "returned"
    /\ op' = "finish"
    /\ UNCHANGED <<graph, neo4j_dois, neo4j_openalex_ids, lastFile,
                   workers, startGraph, handed, lastBatch, deleted_counts,
                   stats, runs,
                   last_update, resumption_token, request_count, total_stats,
                   ledgerAtStart, takenAt, lastPage, harvestLog>>

\* a run that returns its counters without recording the timestamp
FinishRunSkipsLedger ==
    /\ pc = "drained"
    /\ now < ClockStart + MaxClock
    /\ now' = now + 1
    /\ pc' = "idle"
    /\ outcome' = "returned"
    /\ op' = "finish"
    /\ UNCHANGED <<graph, updateLog, neo4j_dois, neo4j_openalex_ids, lastFile,
                   workers, startGraph, handed, lastBatch, deleted_counts,
                   stats, runs,
                   last_update, resumption_token, request_count, total_stats,
                   ledgerAtStart, takenAt, lastPage, harvestLog>>

\* lines 332-339: the sequence is drained; record the timestamp and return
FinishRun ==
    /\ pc = "drained"
    /\ now < ClockStart + MaxClock
    /\ updateLog' = RecordUpdateTimestamp(updateLog, now)
    /\ now' = now + 1
    /\ pc' = "idle"
    /\ outcome' = "returned"
    /\ op' = "finish"
    /\ UNCHANGED <<graph, neo4j_dois, neo4j_openalex_ids, lastFile,
                   workers, startGraph, handed, lastBatch, deleted_counts,
                   stats, runs,
                   last_update, resumption_token, request_count, total_stats,
                   ledgerAtStart, takenAt, lastPage, harvestLog>>

\* line 333 raises (the store refuses the statement): lines 341-343 re-raise
FinishFails ==
    /\ pc = "drained"
    /\ pc' = "idle"
    /\ outcome' = "raised"
    /\ op' = "finish"
    /\ UNCHANGED <<graph, updateLog, now, neo4j_dois, neo4j_openalex_ids, lastFile,
                   workers, startGraph, handed, lastBatch,
                   deleted_counts,
                   stats, runs, last_update, resumption_token, request_count,
                   total_stats, ledgerAtStart, takenAt, lastPage, harvestLog>>

\* a termination that still records the timestamp, as a finally clause would
TerminateRecording ==
    /\ Running
    /\ updateLog' = RecordUpdateTimestamp(updateLog, now)
    /\ pc' = "idle"
    /\ outcome' = "terminated"
    /\ op' = "terminate"
    /\ UNCHANGED <<graph, now, neo4j_dois, neo4j_openalex_ids, lastFile,
                   workers, startGraph, handed, lastBatch,
                   deleted_counts,
                   stats, runs, last_update, resumption_token, request_count,
                   total_stats, ledgerAtStart, takenAt, lastPage, harvestLog>>

\* the process is terminated (KeyboardInterrupt is no Exception: nothing
\* catches it) between two steps of a run
Terminate ==
    /\ Running
    /\ pc' = "idle"
    /\ outcome' = "terminated"
    /\ op' = "terminate"
    /\ UNCHANGED <<graph, updateLog, now, neo4j_dois, neo4j_openalex_ids, lastFile,
                   workers, startGraph, handed, lastBatch,
                   deleted_counts,
                   stats, runs, last_update, resumption_token, request_count,
                   total_stats, ledgerAtStart, takenAt, lastPage, harvestLog>>

NextRun ==
    \/ StartRun
    \/ RequestFails
    \/ HarvestPage
    \/ HarvestPageFailing
    \/ FinishRun
    \/ FinishFails
    \/ Terminate

SpecRun == Init /\ [][NextRun]_vars

(***************************************************************************)
(* Properties of the mutation engine, checked under Spec.  In every state  *)
(* but the first, op, lastBatch and stats describe the call that led to    *)
(* the state, and graph is the store that call left.                       *)
(***************************************************************************)
WroteInto(g, n) == {e[1] : e \in {x \in DOMAIN g.wrote : x[2] = n}}

CategoriesOf(g, n) == {e[2] : e \in {x \in DOMAIN g.hasCategory : x[1] = n}}

IgnoreLastModified(g) ==
    [g EXCEPT !.papers = [n \in DOMAIN @ |-> [@[n] EXCEPT !.last_modified = NoneTime]]]

\* the stream cut into batches of batch_size, each given to upsert_paper_batch
RECURSIVE UpsertInBatches(_, _, _, _)
UpsertInBatches(g, stream, batch_size, t) ==
    IF stream = <<>> THEN g
    ELSE LET k == Min(batch_size, Len(stream))
         IN UpsertInBatches(UpsertPaperBatch(g, SubSeq(stream, 1, k), t, NoFault).graph,
                            SubSeq(stream, k + 1, Len(stream)), batch_size, t)

\* the deleted records of a batch that found their Paper in the store
RECURSIVE ExistingDeleted(_, _)
ExistingDeleted(g, deleted_papers) ==
    IF deleted_papers = <<>> THEN 0
    ELSE LET k == Head(deleted_papers).id
         IN (IF PapersByArxivId(g, k) # {} THEN 1 ELSE 0)
            + ExistingDeleted(DetachDelete(g, k), Tail(deleted_papers))

\* C2: after a batch that upserts Paper P from a record with a non-empty
\* author list or a non-empty category list, the WROTE edges into P are
\* exactly the record's normalised authors and the HAS_CATEGORY edges out of
\* P exactly the record's categories.
C2_EdgesAreTheRecords ==
    (op = "upsert" /\ stats.errors = 0) =>
        \A i \in 1..Len(lastBatch) :
            LET rec == lastBatch[i]
            IN ~IsDeleted(rec) =>
                \A n \in PapersByArxivId(graph, rec.id) :
                    /\ Get(rec, "authors_parsed", <<>>) # <<>> =>
                           WroteInto(graph, n) = SeqToSet(PaperAuthors(rec))
                    /\ CategoryIds(rec) # <<>> =>
                           CategoriesOf(graph, n) = SeqToSet(CategoryIds(rec))

C5_BatchSizeIndependent ==
    [][(op' = "upsert" /\ stats'.errors = 0) =>
          IgnoreLastModified(graph')
              = IgnoreLastModified(UpsertInBatches(graph, lastBatch', 1, now))]_vars

\* C6: a call of upsert_paper_batch leaves the store either as it was or with
\* the batch's whole effect.
C6_BatchAtomic ==
    [][op' = "upsert" =>
          graph' \in {graph, UpsertPaperBatch(graph, lastBatch', now, NoFault).graph}]_vars

\* C10: the deleted counter a call returns counts the deleted records whose
\* Paper existed when the record was processed.
C10_DeletedCountsExisting ==
    [][(op' = "upsert" /\ stats'.errors = 0) =>
          stats'.deleted = ExistingDeleted(graph, FilterDeleted(lastBatch', TRUE))]_vars

(***************************************************************************)
(* Properties of the matcher and the citation builder, checked under       *)
(* SpecLink.                                                               *)
(***************************************************************************)
\* C4: no two Paper nodes share an arxiv_id, a non-null doi or a non-null
\* openalex_id.
C4_KeysUnique ==
    \A n, m \in DOMAIN graph.papers :
        n # m =>
            /\ graph.papers[n].arxiv_id # graph.papers[m].arxiv_id
            /\ graph.papers[n].doi # NoneStr =>
                   graph.papers[n].doi # graph.papers[m].doi
            /\ graph.papers[n].openalex_id # NoneStr =>
                   graph.papers[n].openalex_id # graph.papers[m].openalex_id

\* C9: a step adds a CITES edge only as the citation builder, and only between
\* two Papers of the store whose OpenAlex identifiers are both in the key set
\* the builder loaded.
C9_CitesOnlyBetweenLoadedKeys ==
    [][\A e \in DOMAIN graph'.cites \ DOMAIN graph.cites :
          /\ op' = "cite"
          /\ e[1] \in DOMAIN graph'.papers
          /\ e[2] \in DOMAIN graph'.papers
          /\ graph'.papers[e[1]].openalex_id \in neo4j_openalex_ids'
          /\ graph'.papers[e[2]].openalex_id \in neo4j_openalex_ids']_vars

C9_Witness ==
    /\ op = "cite"
    /\ stats.updated > 0
    /\ DOMAIN graph.cites # {}
    /\ neo4j_openalex_ids # NotLoaded

(***************************************************************************)
(* Properties of the incremental update, checked under SpecRun.            *)
(***************************************************************************)
ArxivIdOf(identifier) ==
    LET parts == SplitOn(identifier, ":") IN parts[Len(parts)]

Restarted == pc = "idle" /\ pc' = "harvesting" /\ outcome \in {"raised", "terminated"}

LedgerKept ==
    /\ pc' \in {"harvesting", "drained"} => updateLog' = ledgerAtStart'
    /\ outcome' \in {"raised", "terminated"} => updateLog' = ledgerAtStart'
    /\ updateLog' # updateLog => pc = "drained" /\ outcome' = "returned"

\* C1: after a harvested page is processed, no Paper of the store carries the
\* arXiv identifier of a record of the page whose header is marked deleted.
C1_DeletedRecordsAreAbsent ==
    op = "harvest" =>
        \A i \in 1..Len(lastPage) :
            lastPage[i].status = "deleted" =>
                PapersByArxivId(graph, ArxivIdOf(lastPage[i].identifier)) = {}

\* C7 as stated: while a run is under way, and after a run that raised or was
\* terminated, the ledger is what it was when the run started, and the run
\* that follows reads the timestamp the failed run read.
C7_NextRunReadsTheSameTimestamp ==
    [][LedgerKept /\ (Restarted => last_update' = last_update)]_vars

\* C7: while a run is under way, and after a run that raised or was
\* terminated, the ledger is what it was when the run started; when the ledger
\* has an entry, the run that follows reads the timestamp the failed run read.
C7_LedgerKeptUntilDrained ==
    [][LedgerKept /\ (Restarted /\ updateLog # {} => last_update' = last_update)]_vars

C7_Witness ==
    /\ pc = "idle"
    /\ outcome \in {"raised", "terminated"}
    /\ ledgerAtStart # {}
    /\ total_stats.updated > 0
    /\ updateLog = ledgerAtStart

\* C8: a run starts from the ledger's timestamp when the ledger has an entry,
\* whatever the Papers' update_date; otherwise from the greatest update_date
\* of a Paper when there is one; otherwise from seven days before now.
C8_ThreeTierFallback ==
    [][(pc = "idle" /\ pc' = "harvesting") =>
          LET dates == {graph.papers[n].update_date : n \in DOMAIN graph.papers}
                           \ {NoneTime}
          IN /\ updateLog # {} =>
                    \E u \in updateLog : u.last_update_time = IsoFormat(last_update')
             /\ (updateLog = {} /\ dates # {}) =>
                    /\ last_update' \in dates
                    /\ \A d \in dates : d <= last_update'
             /\ (updateLog = {} /\ dates = {}) =>
                    last_update' = now - SevenDays]_vars

C8_Witness ==
    /\ op = "start"
    /\ updateLog # {}
    /\ \E n \in DOMAIN graph.papers :
           /\ graph.papers[n].update_date # NoneTime
           /\ graph.papers[n].update_date # last_update
    /\ \E u \in updateLog : u.last_update_time = IsoFormat(last_update)

(***************************************************************************)
(* Deletion, checked under SpecLink, where a Paper can have edges of all   *)
(* three types.                                                            *)
(***************************************************************************)
DeletionOnly(papers_batch) ==
    papers_batch # <<>> /\ FilterDeleted(papers_batch, FALSE) = <<>>

\* C11: a batch of deleted records removes the Papers with the records' keys
\* and every WROTE, HAS_CATEGORY and CITES edge incident to them, and leaves
\* every other Paper, every Author, every Category and every other edge as
\* it was.
C11_DeletionRemovesPaperAndItsEdgesOnly ==
    [][(op' = "upsert" /\ DeletionOnly(lastBatch')) =>
          LET keys == {lastBatch'[i].id : i \in 1..Len(lastBatch')}
              gone == {n \in DOMAIN graph.papers : graph.papers[n].arxiv_id \in keys}
          IN /\ DOMAIN graph'.papers = DOMAIN graph.papers \ gone
             /\ \A n \in DOMAIN graph'.papers : graph'.papers[n] = graph.papers[n]
             /\ graph'.authors = graph.authors
             /\ graph'.categories = graph.categories
             /\ DOMAIN graph'.wrote = {e \in DOMAIN graph.wrote : e[2] \notin gone}
             /\ DOMAIN graph'.hasCategory =
                    {e \in DOMAIN graph.hasCategory : e[1] \notin gone}
             /\ DOMAIN graph'.cites =
                    {e \in DOMAIN graph.cites : e[1] \notin gone /\ e[2] \notin gone}
             /\ \A e \in DOMAIN graph'.wrote : graph'.wrote[e] = graph.wrote[e]
             /\ \A e \in DOMAIN graph'.hasCategory :
                    graph'.hasCategory[e] = graph.hasCategory[e]
             /\ \A e \in DOMAIN graph'.cites : graph'.cites[e] = graph.cites[e]]_vars

C11_Witness ==
    /\ op = "upsert"
    /\ DeletionOnly(lastBatch)
    /\ deleted_counts = <<1>>
    /\ PapersByArxivId(graph, lastBatch[1].id) = {}
    /\ DOMAIN graph.papers # {}
    /\ DOMAIN graph.wrote # {}
    /\ DOMAIN graph.hasCategory # {}
    /\ Cardinality(neo4j_openalex_ids \ NotLoaded) = 2

\* C18: in every state the store holds at most one WROTE, one HAS_CATEGORY and
\* one CITES edge between any ordered pair of nodes: merging an edge that is
\* there, in the same batch or a later one, adds nothing.
C18_AtMostOneEdgePerPair ==
    /\ \A e \in DOMAIN graph.wrote : graph.wrote[e] = 1
    /\ \A e \in DOMAIN graph.hasCategory : graph.hasCategory[e] = 1
    /\ \A e \in DOMAIN graph.cites : graph.cites[e] = 1

\* the citation builder merged more rows than there are CITES edges, in a
\* store with WROTE and HAS_CATEGORY edges
C18_Witness ==
    /\ op = "cite"
    /\ stats.updated > Cardinality(DOMAIN graph.cites)
    /\ DOMAIN graph.cites # {}
    /\ DOMAIN graph.wrote # {}
    /\ DOMAIN graph.hasCategory # {}

\* whether a store-side matcher, given the file and the store the client-side
\* matcher was just given, leaves the same openalex_ids and the same count
SameAsOptimized(result) ==
    /\ result.graph.papers = graph'.papers
    /\ result.neo4j_matches = stats'.updated

\* C16: on a store whose Paper DOIs are those of the client-side cache, the
\* store-side-filtering matchers (fast, ultra-fast, production) and the
\* client-side set-lookup matcher leave every Paper with the same openalex_id
\* and report the same number of matches, whatever their batch sizes.
C16_MatchersAgree ==
    [][(op' = "match" /\ neo4j_dois' = LoadNeo4jDois(graph)) =>
          \A batch_size \in 1..MaxBatch :
              /\ SameAsOptimized(ProcessFileFast(graph, lastFile'.file, batch_size))
              /\ SameAsOptimized(ProcessFileUltraFast(graph, lastFile'.file, batch_size))
              /\ SameAsOptimized(ProcessFileProduction(graph, lastFile'.file,
                                                       batch_size))]_vars

\* C17: a call of process_paper_batch the store fails is caught by
\* load_arxiv_data and does not reach its caller, and the batch is dropped:
\* the load goes on with the next batch, so no later call is given a line of
\* a batch that failed.
C17_StoreFailureIsAbsorbed ==
    op = "load" =>
        /\ outcome = "returned"
        /\ \A k \in 1..Len(handed) : \A m \in (k + 1)..Len(handed) :
               handed[k].raised =>
                   SeqToSet(handed[k].lines) \cap SeqToSet(handed[m].lines) = {}

(***************************************************************************)
(* Properties of two concurrent batches, checked under SpecConc.           *)
(***************************************************************************)
\* the store after batch x and then batch y, each run alone
OneAfterTheOther(g, x, y) ==
    ProcessActivePapersBatch(ProcessActivePapersBatch(g, x, NoneTime, 0).graph,
                             y, NoneTime, 0).graph

BothDone == \A w \in Workers : workers[w].next = Done

\* C19: when two batches that share a Paper key have both run, their
\* statements interleaved, the store is (last_modified aside) the store that
\* running one batch and then the other, in one of the two orders, leaves.
C19_ConcurrentBatchesConverge ==
    BothDone =>
        IgnoreLastModified(graph) \in
            {IgnoreLastModified(OneAfterTheOther(startGraph, workers[1].batch,
                                                 workers[2].batch)),
             IgnoreLastModified(OneAfterTheOther(startGraph, workers[2].batch,
                                                 workers[1].batch))}

(***************************************************************************)
(* oai_pmh_client.py: harvest_incremental as the consumer sees it, request *)
(* by request.  One list_records call is one session.get, and the adapter  *)
(* mounted in _create_session repeats the HTTP request inside it: up to    *)
(* RetryTotal more times on a status of the force list or a transport      *)
(* error, sleeping BackoffFactor * 2^(n-1) before the next attempt once n  *)
(* attempts in a row have failed, and not at all after the first.          *)
(***************************************************************************)
RetryTotal == 3

BackoffFactor == 1

RateBurst == 4

RatePause == 1

CoolDown == 60

\* urllib3's Retry.get_backoff_time after n failed attempts in a row
Backoff(n) == IF n <= 1 THEN 0 ELSE BackoffFactor * 2 ^ (n - 1)

\* '%Y-%m-%d' of an instant; an instant of the model is a day
StrfDate(t) == <<"ymd", t>>

\* a request that keeps the filter of the first request next to the token
ListRecordsParamsKeepingFilter(metadata_prefix, from_date, token) ==
    ("verb" :> <<"ListRecords">>) @@ ("metadataPrefix" :> metadata_prefix)
    @@ (IF from_date # NoneTime THEN ("from" :> StrfDate(from_date)) ELSE <<>>)
    @@ (IF Truthy(token) THEN ("resumptionToken" :> token) ELSE <<>>)

\* a request that forgets the token and asks for the first page again
ListRecordsParamsFromStart(metadata_prefix, from_date, token) ==
    ("verb" :> <<"ListRecords">>) @@ ("metadataPrefix" :> metadata_prefix)
    @@ (IF from_date # NoneTime THEN ("from" :> StrfDate(from_date)) ELSE <<>>)

\* list_records, lines 142-153, as harvest_incremental calls it (no until_date,
\* no set_spec)
ListRecordsParams(metadata_prefix, from_date, token) ==
    IF Truthy(token)
    THEN ("verb" :> <<"ListRecords">>) @@ ("resumptionToken" :> token)
    ELSE ("verb" :> <<"ListRecords">>) @@ ("metadataPrefix" :> metadata_prefix)
         @@ (IF from_date # NoneTime THEN ("from" :> StrfDate(from_date)) ELSE <<>>)

\* a cool-down that doubles with every failure in a row
PausesBeforeGrowing ==
    (IF op = "retry" THEN <<CoolDown * 2 ^ (retries - 1)>> ELSE <<>>)
    \o (IF request_count > 0 /\ request_count % RateBurst = 0
        THEN <<RatePause>> ELSE <<>>)

\* lines 254-256 after the cool-down of lines 278-281, if the request before
\* this one failed
PausesBefore ==
    (IF op = "retry" THEN <<CoolDown>> ELSE <<>>)
    \o (IF request_count > 0 /\ request_count % RateBurst = 0
        THEN <<RatePause>> ELSE <<>>)

\* the HTTP requests in a row after attempt i of a call of `tries` attempts,
\* b of them before attempt i, and the longest row so far
RECURSIVE BurstAfter(_, _, _, _)
BurstAfter(b, top, i, tries) ==
    IF i > tries THEN [burst |-> b, peak |-> top]
    ELSE LET row == IF i > 1 /\ Backoff(i - 1) > 0 THEN 1 ELSE b + 1
         IN BurstAfter(row, IF row > top THEN row ELSE top, i + 1, tries)

HarvestTokens == {NoneStr, <<"t">>, <<"u">>}

HarvestPages ==
    { <<>>,
      <<BadElem>>,
      <<DeletedElem(OaiId(<<"1">>), <<"2">>)>>,
      <<ActiveElem(OaiId(<<"1">>), <<"1">>, << <<"c">> >>,
                   << <<"title", <<"T">> >>, <<"creator", <<"A">> >> >>)>> }

\* harvest_incremental(last_update), lines 245-249
StartHarvest ==
    \E t \in {ClockStart - SevenDays, ClockStart} :
        /\ pc = "idle"
        /\ runs < MaxHarvests
        /\ runs' = runs + 1
        /\ last_update' = t
        /\ resumption_token' = NoneStr
        /\ request_count' = 0
        /\ pc' = "harvesting"
        /\ op' = "start"
        /\ UNCHANGED <<graph, updateLog, now, neo4j_dois, neo4j_openalex_ids, lastFile,
                   workers, startGraph, handed, lastBatch,
                       deleted_counts, stats, total_stats, outcome, ledgerAtStart, takenAt,
                       lastPage, harvestLog>>

\* what every request does before its answer is known
Issue(tries) ==
    LET before == PausesBefore
        rows == BurstAfter(IF before # <<>> THEN 0 ELSE burst, peak, 1, tries)
    IN /\ pc = "harvesting"
       /\ params' = ListRecordsParams(<<"oai_dc">>, last_update, resumption_token)
       /\ pausedBefore' = before
       /\ burst' = rows.burst
       /\ peak' = rows.peak

\* lines 258-275: the request is answered; a page with records is yielded
ListRecordsReturns ==
    \E page \in HarvestPages, next_token \in HarvestTokens, tries \in 1..(RetryTotal + 1) :
        LET records == ParseRecords(page)
        IN /\ ~serverDown
           /\ request_count + 1 >= MaxHarvestRequests => next_token = NoneStr
           /\ Issue(tries)
           /\ retries' = 0
           /\ resumption_token' = next_token
           /\ request_count' = request_count + 1
           /\ lastPage' = records
           /\ takenAt' = now
           /\ pc' = IF records = <<>> \/ ~Truthy(next_token)
                    THEN "drained" ELSE "harvesting"
           /\ op' = IF records = <<>> THEN "empty" ELSE "harvest"
           /\ UNCHANGED <<graph, updateLog, now, neo4j_dois, neo4j_openalex_ids, lastFile,
                   workers, startGraph, handed,
                          lastBatch, deleted_counts, stats, runs, last_update,
                          total_stats, outcome, ledgerAtStart, serverDown>>

\* lines 277-281: the request raised; sleep CoolDown and go round again
ListRecordsRaises ==
    \E tries \in 1..(RetryTotal + 1) :
        /\ Issue(tries)
        /\ retries' = Min(retries + 1, MaxRetries)
        /\ op' = "retry"
        /\ UNCHANGED <<graph, updateLog, now, neo4j_dois, neo4j_openalex_ids, lastFile,
                   workers, startGraph, handed,
                       lastBatch, deleted_counts, stats, pc, runs, last_update,
                       resumption_token, request_count, total_stats, outcome,
                       ledgerAtStart, takenAt, lastPage, serverDown>>

\* the server starts to fail every request (it answers noRecordsMatch, say)
ServerGoesDown ==
    /\ pc = "harvesting"
    /\ ~serverDown
    /\ serverDown' = TRUE
    /\ UNCHANGED <<graph, updateLog, now, neo4j_dois, neo4j_openalex_ids, lastFile,
                   workers, startGraph, handed, op, lastBatch,
                   deleted_counts, stats, pc, runs, last_update, resumption_token,
                   request_count, total_stats, outcome, ledgerAtStart, takenAt, lastPage,
                   params, pausedBefore, burst, peak, retries>>

NextHarvest ==
    \/ StartHarvest
    \/ ListRecordsReturns
    \/ ListRecordsRaises
    \/ ServerGoesDown

SpecHarvest == Init /\ [][NextHarvest]_vars

\* the loop of harvest_incremental keeps running
SpecHarvestFair == SpecHarvest /\ WF_vars(ListRecordsReturns \/ ListRecordsRaises)

(***************************************************************************)
(* Properties of the harvest, checked under SpecHarvest.                   *)
(***************************************************************************)
\* a step in which harvest_incremental issues a request
Requesting == pc = "harvesting" /\ serverDown' = serverDown /\ op' # "start"

InitialParams ==
    /\ DOMAIN params' = {"verb", "metadataPrefix", "from"}
    /\ params'.metadataPrefix = <<"oai_dc">>
    /\ params'.from = StrfDate(last_update)

TokenParams ==
    /\ DOMAIN params' = {"verb", "resumptionToken"}
    /\ params'.resumptionToken = resumption_token
    /\ Truthy(resumption_token)

\* C12: the batch sequence ends only after a response without a continuation
\* token.
C12_DoneOnlyAfterTokenlessResponse ==
    pc = "drained" => ~Truthy(resumption_token)

\* C13 as stated: the first request of a harvest carries the metadata format
\* and the from-date and no token; every later request carries the token of
\* the latest successful response and nothing else.
C13_LaterRequestsCarryOnlyTheToken ==
    [][Requesting => IF op = "start" THEN InitialParams ELSE TokenParams]_vars

\* C13: a request issued before any page has succeeded carries the metadata
\* format and the from-date and no token; every request issued after a page
\* has succeeded carries the token of the latest successful response and
\* nothing else.
C13_RequestsCarryFilterOrToken ==
    [][Requesting => IF request_count = 0 THEN InitialParams ELSE TokenParams]_vars

C13_Witness ==
    /\ op = "harvest"
    /\ request_count >= 2
    /\ "resumptionToken" \in DOMAIN params
    /\ params.resumptionToken # resumption_token
    /\ Truthy(resumption_token)

\* C14: a request that raises leaves the continuation state as it was and the
\* loop running; the request that follows it is issued after a cool-down of
\* CoolDown, however many requests have failed in a row, and carries the
\* params of the request that failed.
C14_RetrySameStateAfterFixedCoolDown ==
    [][/\ (Requesting /\ op' = "retry") =>
              /\ resumption_token' = resumption_token
              /\ request_count' = request_count
              /\ pc' = "harvesting"
       /\ (Requesting /\ op = "retry") =>
              /\ params' = params
              /\ pausedBefore' \in {<<CoolDown>>, <<CoolDown, RatePause>>}]_vars

C14_Witness ==
    /\ op = "retry"
    /\ retries = MaxRetries
    /\ request_count > 0
    /\ "resumptionToken" \in DOMAIN params
    /\ pausedBefore # <<>>
    /\ Head(pausedBefore) = CoolDown

\* C15: no more than RateBurst HTTP requests are issued without a sleep between
\* them, and the request after every RateBurst-th successful one is issued
\* after a sleep of RatePause.
C15_AtMostFourRequestsWithoutPause ==
    [][/\ peak' <= RateBurst
       /\ (Requesting /\ op # "retry" /\ request_count > 0
             /\ request_count % RateBurst = 0) => pausedBefore' = <<RatePause>>]_vars

\* C20: once the server fails every request, the harvest ends.
C20_PersistentFailureEndsTheHarvest ==
    serverDown ~> (pc # "harvesting")

(***************************************************************************)
(* The entry points of a run, checked under SpecRun.                       *)
(***************************************************************************)
\* arxiv_updater.main, lines 355-361: a try with a finally and no except, so
\* what run_incremental_update raises leaves main
MainRaises == outcome = "raised"

\* scheduler.run_scheduled_update, lines 44-65: the counts are logged after
\* run_incremental_update has returned; its except logs the failure only
ScheduledUpdateReports == outcome = "returned"

\* C21: a run that met a store, protocol or transport error does not raise
\* past its entry point, and ends by reporting its updated, deleted and
\* errors counts.
C21_RunAbsorbsErrorsAndReports ==
    (pc = "idle" /\ outcome \in {"returned", "raised"}) =>
        /\ ~MainRaises
        /\ ScheduledUpdateReports

(***************************************************************************)
(* Properties of the conversion of creators, checked under SpecConvert.    *)
(***************************************************************************)
\* the creator strings of a parsed record that have text
CreatorsOf(record) ==
    LET creators == IF "creator" \notin DOMAIN record THEN <<>>
                    ELSE IF "creator" \in record.lists_ THEN record.creator
                    ELSE <<record.creator>>
    IN {creators[i] : i \in {j \in 1..Len(creators) : creators[j] # NoneStr}}

\* a creator string with its tokens one blank apart
Collapsed(creator) == JoinWith(<<" ">>, SplitWs(creator))

\* the store holds one Author of the creator's collapsed name and one WROTE
\* edge from it to the Paper of the record
AuthorOf(record, creator) ==
    /\ BagIn(Collapsed(creator), graph.authors)
    /\ graph.authors[Collapsed(creator)] = 1
    /\ PapersByArxivId(graph, ArxivIdOf(record.identifier)) # {}
    /\ \A n \in PapersByArxivId(graph, ArxivIdOf(record.identifier)) :
          /\ <<Collapsed(creator), n>> \in DOMAIN graph.wrote
          /\ graph.wrote[<<Collapsed(creator), n>>] = 1

DeletionEvent ==
    op' = "upsert" /\ FilterDeleted(lastBatch', TRUE) # <<>>

\* C23: a step that is no deletion event removes no CITES edge, and only a
\* step of the citation builder adds one: an upsert of active records and a
\* matcher run leave the CITES edges as they are.
C23_CitesOnlyGrowAndOnlyByTheBuilder ==
    [][~DeletionEvent =>
          /\ \A e \in DOMAIN graph.cites :
                e \in DOMAIN graph'.cites /\ graph'.cites[e] >= graph.cites[e]
          /\ op' # "cite" => graph'.cites = graph.cites]_vars

\* an upsert of active records only has re-upserted a Paper that CITES edges
\* touch
C23_Witness ==
    /\ op = "upsert"
    /\ FilterDeleted(lastBatch, TRUE) = <<>>
    /\ \E e \in DOMAIN graph.cites :
          \E i \in 1..Len(lastBatch) :
              PapersByArxivId(graph, lastBatch[i].id) \cap {e[1], e[2]} # {}

\* C24: a key set, once loaded, is the set every later step works with,
\* whatever happens to the keys in the store; it is loaded by the first
\* matcher (respectively citation) run, from the store as it is then.
C24_KeySetIsAStableSnapshot ==
    [][/\ neo4j_dois # NotLoaded => neo4j_dois' = neo4j_dois
       /\ neo4j_openalex_ids # NotLoaded => neo4j_openalex_ids' = neo4j_openalex_ids
       /\ neo4j_dois' # neo4j_dois =>
              op' = "match" /\ neo4j_dois' = LoadNeo4jDois(graph)
       /\ neo4j_openalex_ids' # neo4j_openalex_ids =>
              op' = "cite" /\ neo4j_openalex_ids' = LoadNeo4jOpenAlexIds(graph)
       /\ op' = "match" =>
              graph' = ProcessFileOptimized(graph, lastFile'.file, neo4j_dois',
                                            lastFile'.batch_size).graph]_vars

\* a file was matched against a key set that is no longer the store's
C24_Witness ==
    /\ op = "match"
    /\ lastFile.file # <<>>
    /\ neo4j_dois # LoadNeo4jDois(graph)
    /\ neo4j_openalex_ids # NotLoaded
    /\ neo4j_openalex_ids # LoadNeo4jOpenAlexIds(graph)

(***************************************************************************)
(* The matcher on works whose DOI is put together from pieces of the       *)
(* prefix.                                                                  *)
(***************************************************************************)
MaxFragments == 3

\* the pieces a DOI of the corpus is made of: the prefix, its two halves
\* and the DOI of a Paper of the snapshot
DoiFragments ==
    {DoiPrefix, SubSeq(DoiPrefix, 1, 9), SubSeq(DoiPrefix, 10, Len(DoiPrefix)), <<"d">>}

\* process_file_optimized on a file of one work
MatchDoiFile ==
    \E parts \in SeqsUpTo(DoiFragments, MaxFragments) :
        LET batch_size == MaxBatch
            file == <<[id |-> <<"W1">>, doi |-> Concat(parts),
                       referenced_works |-> <<>>]>>
            dois == CachedNeo4jDois(neo4j_dois, graph)
        IN \E result \in {ProcessFileOptimized(graph, file, dois, batch_size)} :
              /\ neo4j_dois' = dois
              /\ graph' = result.graph
              /\ op' = "doi"
              /\ lastBatch' = <<>>
              /\ deleted_counts' = <<>>
              /\ stats' = [NoStats EXCEPT !.updated = result.neo4j_matches]
              /\ lastFile' = [file |-> file, batch_size |-> batch_size]
              /\ UNCHANGED <<updateLog, now, neo4j_openalex_ids, runVars, workers,
                             startGraph, handed>>

NextDoi ==
    \/ UpsertSnapshotBatch
    \/ MatchDoiFile

SpecDoi == Init /\ [][NextDoi]_vars

\* C25: removing the prefix from a DOI the matcher has cleaned changes
\* nothing, and a match the matcher counts is a Paper whose DOI is the
\* cleaned key, which is in the key set.
C25_NormalizationIsIdempotent ==
    (op = "doi" /\ Truthy(lastFile.file[1].doi)) =>
        LET clean_doi == CleanDoi(lastFile.file[1].doi)
        IN /\ CleanDoi(clean_doi) = clean_doi
           /\ stats.updated > 0 =>
                  /\ clean_doi \in neo4j_dois
                  /\ \E n \in PapersByDoi(graph, clean_doi) :
                         graph.papers[n].openalex_id = lastFile.file[1].id

(***************************************************************************)
(* The snapshot load from a stream with lines that are not records.        *)
(***************************************************************************)
MaxStream == 2

StreamLines == SnapshotPapers \cup {MalformedLine, UndecodableLine}

\* the stream without the lines that are not records
WellFormed(lines) ==
    SelectSeq(lines, LAMBDA line : line \notin {MalformedLine, UndecodableLine})

\* load_arxiv_data(data_file, batch_size=batch_size) on such a stream
LoadStream ==
    \E lines \in SeqsUpTo(StreamLines, MaxStream), batch_size \in 1..MaxBatch :
        \E result \in {LoadArxivData(graph, lines, batch_size, NoLoadFault)} :
           /\ startGraph' = graph
           /\ graph' = result.graph
           /\ handed' = result.handed
           /\ outcome' = IF result.raised THEN "raised" ELSE "returned"
           /\ op' = "stream"
           /\ lastBatch' = <<>>
           /\ deleted_counts' = <<>>
           /\ stats' = NoStats
           /\ lastFile' = [file |-> lines, batch_size |-> batch_size]
           /\ UNCHANGED <<updateLog, now, neo4j_dois, neo4j_openalex_ids, pc, runs,
                          last_update, resumption_token, request_count, total_stats,
                          ledgerAtStart, takenAt, lastPage, harvestLog, workers>>

NextStream == LoadStream

SpecStream == Init /\ [][NextStream]_vars

\* C26: a load of a stream returns normally and leaves the graph that the
\* load of its records alone, the other lines taken out, leaves.
C26_MalformedLinesAreSkipped ==
    op = "stream" =>
        /\ outcome = "returned"
        /\ graph = LoadArxivData(startGraph, WellFormed(lastFile.file),
                                 lastFile.batch_size, NoLoadFault).graph

\* the same of the streams whose lines all decode as text
LinesJsonRejectsAreSkipped ==
    (op = "stream" /\ \A i \in 1..Len(lastFile.file) : lastFile.file[i] # UndecodableLine) =>
        /\ outcome = "returned"
        /\ graph = LoadArxivData(startGraph, WellFormed(lastFile.file),
                                 lastFile.batch_size, NoLoadFault).graph

(***************************************************************************)
(* The scope of the edge reconciliation, checked under Spec.               *)
(***************************************************************************)
\* the records of the batch that _process_active_papers_batch is given for
\* the Paper with key k
ActiveRecordsOf(papers_batch, k) ==
    {r \in SeqToSet(FilterDeleted(papers_batch, FALSE)) : r.id = k}

\* the batch asks for the deletion of the Paper with key k
DeletedBy(papers_batch, k) ==
    \E r \in SeqToSet(FilterDeleted(papers_batch, TRUE)) : r.id = k

WroteEdgesInto(g, n) == Restrict(g.wrote, {e \in DOMAIN g.wrote : e[2] = n})

HasCategoryEdgesOf(g, n) ==
    Restrict(g.hasCategory, {e \in DOMAIN g.hasCategory : e[1] = n})

\* C27: an upsert_paper_batch call leaves the WROTE edges of a Paper as they
\* were unless a record of the batch for that Paper supplied a non-empty
\* author list, and its HAS_CATEGORY edges as they were unless a record for
\* it supplied a non-empty category list; this of every Paper the batch does
\* not delete, in the batch or outside it.
C27_ReconciliationIsScopedToTheBatch ==
    [][op' = "upsert" =>
          \A n \in DOMAIN graph.papers :
              LET k == graph.papers[n].arxiv_id
                  records == ActiveRecordsOf(lastBatch', k)
              IN ~DeletedBy(lastBatch', k) =>
                   /\ (\A r \in records : Get(r, "authors_parsed", <<>>) = <<>>)
                          => WroteEdgesInto(graph', n) = WroteEdgesInto(graph, n)
                   /\ (\A r \in records : ~Truthy(Get(r, "categories", <<>>)))
                          => HasCategoryEdgesOf(graph', n) = HasCategoryEdgesOf(graph, n)]_vars

\* after a batch: a Paper outside the batch with edges of both kinds, and a
\* Paper in the batch whose edges of one kind are not those of its record
C27_Witness ==
    /\ op = "upsert"
    /\ \E n \in DOMAIN graph.papers :
          /\ ActiveRecordsOf(lastBatch, graph.papers[n].arxiv_id) = {}
          /\ WroteEdgesInto(graph, n) # <<>>
          /\ HasCategoryEdgesOf(graph, n) # <<>>
    /\ \E n \in DOMAIN graph.papers :
          \E r \in ActiveRecordsOf(lastBatch, graph.papers[n].arxiv_id) :
              \/ /\ Get(r, "authors_parsed", <<>>) = <<>>
                 /\ WroteEdgesInto(graph, n) # <<>>
              \/ /\ ~Truthy(Get(r, "categories", <<>>))
                 /\ HasCategoryEdgesOf(graph, n) # <<>>

(***************************************************************************)
(* The ledger, checked under SpecRun.                                      *)
(***************************************************************************)
\* u.update_count of the ledger, 0 when there is no entry
UpdateCount(log) == SetMax({u.update_count : u \in log} \cup {0})

\* the step in which a run calls record_update_timestamp and it returns
RecordsTimestamp == pc = "drained" /\ pc' = "idle" /\ outcome' = "returned"

\* C28: there is never more than one ledger entry; a record_update_timestamp
\* call adds exactly 1 to update_count, counted from 0 when there was no
\* entry; no other step changes the ledger, so update_count never decreases
\* and never exceeds the number of runs.
C28_LedgerIsASingletonCountingUp ==
    [][/\ Cardinality(updateLog') <= 1
       /\ RecordsTimestamp => UpdateCount(updateLog') = UpdateCount(updateLog) + 1
       /\ ~RecordsTimestamp => updateLog' = updateLog
       /\ UpdateCount(updateLog') >= UpdateCount(updateLog)
       /\ UpdateCount(updateLog') <= runs']_vars

\* the ledger after the second run that advanced it
C28_Witness ==
    /\ op = "finish"
    /\ outcome = "returned"
    /\ Cardinality(updateLog) = 1
    /\ UpdateCount(updateLog) = 2

(***************************************************************************)
(* The order of the statements and the endpoints of the edges, checked     *)
(* under SpecLink.                                                         *)
(***************************************************************************)
\* every edge of g connects two nodes of g
NoDanglingEdge(g) ==
    /\ \A e \in DOMAIN g.wrote : BagIn(e[1], g.authors) /\ e[2] \in DOMAIN g.papers
    /\ \A e \in DOMAIN g.hasCategory :
           e[1] \in DOMAIN g.papers /\ BagIn(e[2], g.categories)
    /\ \A e \in DOMAIN g.cites : e[1] \in DOMAIN g.papers /\ e[2] \in DOMAIN g.papers

\* every row of the two relationship lists of the batch has its edge in g
EveryRowHasItsEdge(g, papers_batch) ==
    LET active_papers == FilterDeleted(papers_batch, FALSE)
    IN /\ \A rel \in SeqToSet(AuthorRelationships(active_papers)) :
              \E n \in PapersByArxivId(g, rel.paper_id) :
                  <<rel.author_name, n>> \in DOMAIN g.wrote
       /\ \A rel \in SeqToSet(CategoryRelationships(active_papers)) :
              \E n \in PapersByArxivId(g, rel.paper_id) :
                  <<n, rel.category_id>> \in DOMAIN g.hasCategory

RECURSIVE LinesRead(_)
LinesRead(file) ==
    IF file = <<>> \/ Head(file) = UndecodableLine THEN <<>>
    ELSE <<Head(file)>> \o LinesRead(Tail(file))

\* lines 148-160: the candidate pairs of the records read, in order
RECURSIVE CandidatePairs(_, _)
CandidatePairs(file, ids) ==
    IF file = <<>> THEN <<>>
    ELSE LET work == Head(file)
         IN (IF work # MalformedLine /\ ContributesCitations(work, ids)
             THEN ReferencePairs(work.id, work.referenced_works, ids) ELSE <<>>)
            \o CandidatePairs(Tail(file), ids)

\* process_file_citations(file, batch_size) on such a stream
CiteStream ==
    \E file \in SeqsUpTo(Works \cup {MalformedLine, UndecodableLine}, MaxFile),
       batch_size \in 1..MaxBatch :
        LET ids == CachedNeo4jOpenAlexIds(neo4j_openalex_ids, graph)
        IN \E result \in {ProcessFileCitations(graph, file, ids, batch_size)} :
              /\ neo4j_openalex_ids' = ids
              /\ graph' = result.graph
              /\ op' = "citestream"
              /\ lastBatch' = CandidatePairs(LinesRead(file), ids)
              /\ handed' = CitationFlushes(file, ids, batch_size)
              /\ deleted_counts' = <<>>
              /\ stats' = [NoStats EXCEPT !.updated = result.successful_citations]
              /\ lastFile' = NoFile
              /\ UNCHANGED <<updateLog, now, neo4j_dois, runVars, workers, startGraph>>

NextCiteStream ==
    \/ UpsertSnapshotBatch
    \/ MatchFile
    \/ CiteStream

SpecCiteStream == Init /\ [][NextCiteStream]_vars

\* C30: the batches process_file_citations has handed to the store, one
\* after the other, are the candidate pairs of the records it read, each
\* once and in order.
C30_EveryCandidateIsSubmittedOnce ==
    op = "citestream" => Concat(handed) = lastBatch

(***************************************************************************)
(* The citation builder over a store that holds matched Papers: the        *)
(* corpus in any order and with any batch size.                            *)
(***************************************************************************)
MaxCorpus == 3

\* the store after a snapshot batch has been upserted and the works W1 and
\* W2 have been matched to it by DOI
MatchedStore(papers_batch) ==
    LET loaded == UpsertPaperBatch(EmptyGraph, papers_batch, ClockStart, NoFault).graph
        file == <<[id |-> <<"W1">>, doi |-> DoiPrefix \o <<"d">>,
                   referenced_works |-> << <<"W2">>, <<"W3">> >>],
                  [id |-> <<"W2">>, doi |-> DoiPrefix \o <<"e">>,
                   referenced_works |-> <<>>]>>
    IN ProcessFileOptimized(loaded, file, LoadNeo4jDois(loaded), MaxBatch).graph

\* the state in which the citation builder starts: a matched store, and a
\* loader that has no key set yet or holds the key set of an earlier store
InitCite ==
    /\ \E papers_batch \in SeqsUpTo(SnapshotPapers, MaxBatch) \ {<<>>} :
          graph = MatchedStore(papers_batch)
    /\ neo4j_dois = NotLoaded
    /\ neo4j_openalex_ids \in {NotLoaded} \cup SUBSET {<<"W1">>, <<"W2">>}
    /\ now = ClockStart
    /\ updateLog = {}
    /\ op = "init"
    /\ lastBatch = <<>>
    /\ deleted_counts = <<>>
    /\ stats = NoStats
    /\ pc = "idle"
    /\ runs = 0
    /\ last_update = NoneTime
    /\ resumption_token = NoneStr
    /\ request_count = 0
    /\ total_stats = NoStats
    /\ outcome = "none"
    /\ ledgerAtStart = {}
    /\ takenAt = NoneTime
    /\ lastPage = <<>>
    /\ params = NoneRec
    /\ pausedBefore = <<>>
    /\ burst = 0
    /\ peak = 0
    /\ retries = 0
    /\ serverDown = FALSE
    /\ lastFile = NoFile
    /\ workers = [w \in Workers |-> Idle]
    /\ startGraph = EmptyGraph
    /\ handed = <<>>

\* process_file_citations(file, batch_size) on a corpus file of records
CiteRecords ==
    \E file \in SeqsUpTo(Works, MaxCorpus), batch_size \in 1..MaxBatch :
        LET ids == CachedNeo4jOpenAlexIds(neo4j_openalex_ids, graph)
        IN \E result \in {ProcessFileCitations(graph, file, ids, batch_size)} :
              /\ neo4j_openalex_ids' = ids
              /\ startGraph' = graph
              /\ graph' = result.graph
              /\ op' = "citerecords"
              /\ lastBatch' = <<>>
              /\ deleted_counts' = <<>>
              /\ stats' = [NoStats EXCEPT !.updated = result.successful_citations]
              /\ lastFile' = [file |-> file, batch_size |-> batch_size]
              /\ UNCHANGED <<updateLog, now, neo4j_dois, runVars, workers, handed>>

NextCite == CiteRecords

SpecCite == InitCite /\ [][NextCite]_vars

\* the records of file in every order
Reorderings(file) ==
    {[i \in 1..Len(file) |-> file[p[i]]] : p \in Permutations(1..Len(file))}

Yields == Requesting /\ op' = "harvest"

\* C32: a request that fails yields nothing and moves nothing; a page is
\* yielded in the step its request is answered, once per answered request;
\* and every request after a yield, straight after it or after any number of
\* failures, asks for the page that follows the page yielded last, so that no
\* page is yielded again and none is passed over.
C32_PagesYieldedOnceInOrder ==
    [][/\ (Requesting /\ op' = "retry") =>
              /\ lastPage' = lastPage
              /\ resumption_token' = resumption_token
              /\ request_count' = request_count
       /\ Yields =>
              /\ lastPage' # <<>>
              /\ request_count' = request_count + 1
       /\ lastPage' # lastPage => Requesting /\ op' \in {"harvest", "empty"}
       /\ (Requesting /\ request_count > 0) =>
              /\ "resumptionToken" \in DOMAIN params'
              /\ params'.resumptionToken = resumption_token]_vars

\* a page yielded by the request that followed a failed one, after an
\* earlier page
C32_Witness ==
    /\ op = "harvest"
    /\ lastPage # <<>>
    /\ request_count >= 2
    /\ CoolDown \in SeqToSet(pausedBefore)
    /\ "resumptionToken" \in DOMAIN params

(***************************************************************************)
(* The counters of a run, checked under SpecRun.                           *)
(***************************************************************************)
\* the step in which a page is yielded to the loop body of lines 317-330
ProcessesPage == pc = "harvesting" /\ op' = "harvest" /\ request_count' = request_count + 1

StartsRun == pc = "idle" /\ pc' = "harvesting"

Counted(s) == s.updated + s.deleted + s.errors

\* C33: the counters upsert_paper_batch returns for a batch add up to the
\* number of records of the batch; the totals of a run start at zero, grow
\* by the counters of each batch and change at no other step, so that the
\* totals returned are the sums of the counters of the batches of the run.
C33_CountersAccountForEveryRecord ==
    [][/\ StartsRun => total_stats' = NoStats
       /\ ProcessesPage =>
              /\ Counted(stats') = Len(lastBatch')
              /\ total_stats' = [k \in DOMAIN total_stats |-> total_stats[k] + stats'[k]]
       /\ ~(StartsRun \/ ProcessesPage) => total_stats' = total_stats]_vars

\* a run that returned totals made of two batches, one of which failed
C33_Witness ==
    /\ op = "finish"
    /\ outcome = "returned"
    /\ total_stats.errors >= 2
    /\ total_stats.updated + total_stats.deleted >= 1
    /\ total_stats # stats

(***************************************************************************)
(* The ledger after a run with failed batches, and the window of the run   *)
(* that follows; checked under SpecRun.  The clock counts days: the        *)
(* from-date of a request is the day of last_update (list_records, line    *)
(* 149), and a record taken from the server at takenAt carries a datestamp *)
(* of that day or an earlier one.                                          *)
(***************************************************************************)
\* the run before this one returned, and the batch of its last page had
\* records counted as errors
LastBatchFailed == outcome = "returned" /\ lastPage # <<>> /\ stats.errors > 0

\* lines 331-333: the write of the ledger at the end of a drained sequence
LedgerAdvances == updateLog' = RecordUpdateTimestamp(updateLog, now)

DeletedAndActive(papers_batch) ==
    {r.id : r \in {x \in SeqToSet(FilterDeleted(papers_batch, FALSE)) :
                      DeletedBy(papers_batch, x.id)}}

\* lines 161-165: the store accepted the statements of the active records
ActiveAccepted(papers_batch, s) ==
    s.updated = Len(FilterDeleted(papers_batch, FALSE))

LinkedStore(papers_batch) ==
    LET matched == MatchedStore(papers_batch)
        file == <<[id |-> <<"W1">>, doi |-> DoiPrefix \o <<"d">>,
                   referenced_works |-> << <<"W2">>, <<"W3">> >>],
                  [id |-> <<"W2">>, doi |-> NoneStr,
                   referenced_works |-> << <<"W1">> >>]>>
    IN ProcessFileCitations(matched, file, LoadNeo4jOpenAlexIds(matched), MaxBatch).graph

\* the state in which the harvest upsert starts: a store with a CITES edge,
\* whose first node is the Paper the harvested records are for
InitFrame ==
    /\ \E papers_batch \in SeqsUpTo(SnapshotPapers, MaxBatch) :
          \E linked \in {LinkedStore(papers_batch)} :
              /\ linked.cites # EmptyBag
              /\ \A n \in DOMAIN linked.papers :
                     linked.papers[n].arxiv_id = <<"1">> => n = 1
              /\ graph = linked
    /\ neo4j_dois = NotLoaded
    /\ neo4j_openalex_ids = NotLoaded
    /\ now = ClockStart
    /\ updateLog = {}
    /\ op = "init"
    /\ lastBatch = <<>>
    /\ deleted_counts = <<>>
    /\ stats = NoStats
    /\ pc = "idle"
    /\ runs = 0
    /\ last_update = NoneTime
    /\ resumption_token = NoneStr
    /\ request_count = 0
    /\ total_stats = NoStats
    /\ outcome = "none"
    /\ ledgerAtStart = {}
    /\ takenAt = NoneTime
    /\ lastPage = <<>>
    /\ params = NoneRec
    /\ pausedBefore = <<>>
    /\ burst = 0
    /\ peak = 0
    /\ retries = 0
    /\ serverDown = FALSE
    /\ lastFile = NoFile
    /\ workers = [w \in Workers |-> Idle]
    /\ startGraph = EmptyGraph
    /\ handed = <<>>

NextFrame ==
    \/ UpsertBatch
    \/ UpsertBatchFailing

SpecFrame == InitFrame /\ [][NextFrame]_vars

\* the Papers of g that the batch does not ask to delete
KeptPapers(g, papers_batch) ==
    {n \in DOMAIN g.papers : ~DeletedBy(papers_batch, g.papers[n].arxiv_id)}

\* the CITES edges of g between the Papers of S
CitesAmong(g, S) ==
    Restrict(g.cites, {e \in DOMAIN g.cites : e[1] \in S /\ e[2] \in S})

\* C36: an upsert_paper_batch call leaves every Paper it does not delete, the
\* Papers its active records are for included, with the openalex_id it had
\* and with the CITES edges it had to and from the other Papers that stay; it
\* creates no CITES edge, and every Author and every Category node that was
\* there is there afterwards, an author left without a WROTE edge included.
C36_UpsertKeepsLinksAndNodes ==
    [][op' = "upsert" =>
          LET kept == KeptPapers(graph, lastBatch')
          IN /\ \A n \in kept :
                   /\ n \in DOMAIN graph'.papers
                   /\ graph'.papers[n].arxiv_id = graph.papers[n].arxiv_id
                   /\ graph'.papers[n].openalex_id = graph.papers[n].openalex_id
             /\ CitesAmong(graph', kept) = CitesAmong(graph, kept)
             /\ graph'.cites \sqsubseteq graph.cites
             /\ graph.authors \sqsubseteq graph'.authors
             /\ graph.categories \sqsubseteq graph'.categories]_vars

\* after a batch with an active record for a Paper that was matched and
\* cited before: the Paper has its identifier and its CITES edge, and an
\* author of the store has no WROTE edge left
C36_Witness ==
    /\ op = "upsert"
    /\ stats.updated > 0
    /\ \E n \in DOMAIN graph.papers :
          /\ ActiveRecordsOf(lastBatch, graph.papers[n].arxiv_id) # {}
          /\ graph.papers[n].openalex_id # NoneStr
          /\ graph.papers[n].last_modified > ClockStart
          /\ \E e \in DOMAIN graph.cites : e[1] = n \/ e[2] = n
    /\ \E a \in DOMAIN graph.authors :
          \A e \in DOMAIN graph.wrote : e[1] # a

(***************************************************************************)
(* Termination of a run.  SpecRunFair is the run of a process that is left *)
(* running: no step terminates it.  A request is a blocking call that      *)
(* returns or raises, and the server answers after finitely many failures: *)
(* weak fairness of the answered request.  The ledger write is a blocking  *)
(* call too: it is accepted or it raises.                                  *)
(***************************************************************************)
\* lines 258-275 and 317-330: the request is answered with a page of no
\* record or of one, and the store accepts the batch or fails a statement
AnswerPage ==
    \E page \in HarvestPages, next_token \in {NoneStr, Token} :
        \E fault \in Faults(ConvertBatch(ParseRecords(page))) :
            Request(page, next_token, fault)

NextRunFair ==
    \/ StartRun
    \/ RequestFails
    \/ AnswerPage
    \/ FinishRun
    \/ FinishFails

\* the step in which a request is answered: under NextRunFair, the steps of
\* AnswerPage
Answered == pc = "harvesting" /\ request_count' = request_count + 1

\* AnswerPage is enabled exactly while pc = "harvesting" (the server can
\* answer with the empty page), so the first fairness condition is
\* WF_vars(AnswerPage) written out
SpecRunFair ==
    /\ Init
    /\ [][NextRunFair]_vars
    /\ ([]<>(pc # "harvesting") \/ []<><<Answered>>_vars)
    /\ WF_vars(FinishRun \/ FinishFails)

\* the run has written the ledger and returned its counters
Returned == pc = "idle" /\ outcome = "returned" /\ updateLog # ledgerAtStart

C38_NoGapBetweenWindows ==
    [][(StartsRun /\ outcome = "returned" /\ updateLog # {})
          => StrfDate(last_update')[2] <= takenAt]_vars

====
